---- MODULE Spec2Model ----
(***************************************************************************)
(* A model of the canonical Huffman codec: the bit stream (bitstream.h),   *)
(* the bit reversal helper (invert.h) and the Huffman model (huffman.h),   *)
(* together with the drivers that exercise them.                           *)
(*                                                                         *)
(* Machine words are bit vectors: a value of an unsigned type of w bits is *)
(* a function from 0..w-1 to {0,1}, bit 0 being the least significant one. *)
(* The operators on them follow the C++ operators of the source.           *)
(***************************************************************************)
EXTENDS Integers, Sequences, FiniteSets, TLC

VARIABLES
  stream,     \* the bitstream object: buffer_, size_, write_index_, read_index_
  written,    \* history: every bit written to the stream, in order
  delivered,  \* history: per stream position below the read cursor, the bit a read delivered ("-" if skipped)
  last,       \* the last call on the stream: its arguments and what it returned
  ops,        \* number of calls made on the stream
  inv,        \* the invert test: the call of invert_bits and its result
  huffman,    \* the huffman_encoding object built from the input
  tree,       \* get_code_lenghts_from_data: the nodes, the priority queue and the root
  canon,      \* build_canonical_coding: the sorted keys and the code values before bit reversal
  decoder,    \* the huffman_encoding object the header is deserialised into
  run         \* the driver: where it is, its input, its output

streamVars == <<stream, written, delivered, last, ops>>

huffmanVars == <<huffman, tree, canon, decoder, run>>

vars == <<stream, written, delivered, last, ops, inv, huffman, tree, canon, decoder, run>>

(***************************************************************************)
(* Bounds of the model.                                                    *)
(***************************************************************************)
MaxOps == 3

\* the invert test is run on the byte values below this one
MaxInvertValue == 128

\* number of symbols of the alphabet the model is run on (256 in the source)
alphabet_size == 4

\* the inputs are the sequences of at most this many symbols
MaxData == 3

\* the model is built from the tables of at most this many occurrences of each symbol
MaxWeight == 3

(***************************************************************************)
(* Constants of the program.                                               *)
(***************************************************************************)
\* number of bits needed to encode one input symbol
alphabet_bits == 8

(***************************************************************************)
(* Bit vectors.                                                            *)
(***************************************************************************)
Bit == {0, 1}

Min(a, b) == IF a < b THEN a ELSE b

Max(a, b) == IF a < b THEN b ELSE a

\* the value 0 of a type of w bits
Zero(w) == [i \in 0..(w - 1) |-> 0]

\* static_cast to an unsigned type of w bits: truncation or zero extension
Cast(v, w) == [i \in 0..(w - 1) |-> IF i \in DOMAIN v THEN v[i] ELSE 0]

\* v >> n and v << n within the type of v
Shr(v, n) == [i \in DOMAIN v |-> IF (i + n) \in DOMAIN v THEN v[i + n] ELSE 0]

Shl(v, n) == [i \in DOMAIN v |-> IF i >= n THEN v[i - n] ELSE 0]

\* a & b, a | b, ~a on values of the same type
And(a, b) == [i \in DOMAIN a |-> IF a[i] = 1 /\ b[i] = 1 THEN 1 ELSE 0]

Or(a, b) == [i \in DOMAIN a |-> IF a[i] = 1 \/ b[i] = 1 THEN 1 ELSE 0]

Not(a) == [i \in DOMAIN a |-> 1 - a[i]]

\* v - 1, wrapping around within the type of v
Dec(v) ==
  LET set == {i \in DOMAIN v : v[i] = 1}
  IN  IF set = {} THEN [i \in DOMAIN v |-> 1]
      ELSE LET k == CHOOSE i \in set : \A j \in set : i <= j
           IN  [i \in DOMAIN v |-> IF i < k THEN 1 ELSE IF i = k THEN 0 ELSE v[i]]

\* v + 1, wrapping around within the type of v
Inc(v) ==
  LET set == {i \in DOMAIN v : v[i] = 0}
  IN  IF set = {} THEN [i \in DOMAIN v |-> 0]
      ELSE LET k == CHOOSE i \in set : \A j \in set : i <= j
           IN  [i \in DOMAIN v |-> IF i < k THEN 0 ELSE IF i = k THEN 1 ELSE v[i]]

\* a < b on unsigned values of the same type
Less(a, b) == \E i \in DOMAIN a : a[i] < b[i] /\ \A j \in DOMAIN a : j > i => a[j] = b[j]

\* the first n bits of v, least significant first, as a sequence
LowBits(v, n) == [i \in 1..n |-> v[i - 1]]

(***************************************************************************)
(* log2.h                                                                  *)
\* F at the value of v, which is evaluated once and in full
With(v, F(_)) == CHOOSE r \in {F(x) : x \in {y \in {v} : y = y}} : TRUE

(***************************************************************************)
RECURSIVE constexpr_log2(_)
constexpr_log2(value) == IF value = 1 THEN 0 ELSE 1 + constexpr_log2(value \div 2)

(***************************************************************************)
(* bitstream.h: the constants and the helpers of class bitstream.          *)
(***************************************************************************)
\* number of bits in a block (block_type is uint32_t)
block_size == 32

\* number of bits in the size used to count the bits within a block
block_bits == constexpr_log2(block_size)

\* bitmask for the bits that count the bits within a block
bitmask_bits == block_size - 1

\* x & bitmask_bits and x >> block_bits on a size_type
BitInBlock(index) == index % (bitmask_bits + 1)

BlockOf(index) == index \div (2 ^ block_bits)

to_block_count(bit_count) == (bit_count + block_size - 1) \div block_size

to_bit_size(block_count) == block_count * block_size

all_zeroes == Zero(block_size)

all_ones == Not(all_zeroes)

\* std::deque::resize: drop the blocks past n, or append value-initialised blocks
resize(buffer, n) ==
  IF n <= Len(buffer) THEN SubSeq(buffer, 1, n)
  ELSE buffer \o [i \in 1..(n - Len(buffer)) |-> all_zeroes]

\* buffer_[k] and buffer_[k] = block
At(buffer, k) == buffer[k + 1]

Put(buffer, k, block) == [buffer EXCEPT ![k + 1] = block]

\* k is an index of the buffer
InBuffer(buffer, k) == k < Len(buffer)

\* sizeof(T) * 8 of the type of a value
Width(value) == Cardinality(DOMAIN value)

(***************************************************************************)
(* The int expression 1 << n.  Shifting an int by 32 is undefined: the     *)
(* builds either take the shift count modulo 32 (the x86 shift             *)
(* instruction: the result is 1) or shift the bit out (the result is 0).   *)
(* Every call picks one of the two outcomes.                               *)
(***************************************************************************)
ShiftOutcomes == {"modulo", "out"}

ShlOne(n, ub) ==
  IF n < block_size THEN [i \in 0..(block_size - 1) |-> IF i = n THEN 1 ELSE 0]
  ELSE IF ub = "modulo" THEN [i \in 0..(block_size - 1) |-> IF i = 0 THEN 1 ELSE 0]
  ELSE Zero(block_size)

\* the int expression (1 << n) - 1
IntMask(n, ub) == Dec(ShlOne(n, ub))

\* default constructor
bitstream_default == [buffer_ |-> <<>>, size_ |-> 0, write_index_ |-> 0, read_index_ |-> 0]

\* construct a stream with `bitcount` bits set to `value`: whole blocks are filled
bitstream_fill(bitcount, value) ==
  [buffer_ |-> [k \in 1..to_block_count(bitcount) |-> IF value # 0 THEN all_ones ELSE all_zeroes],
   size_ |-> bitcount, write_index_ |-> 0, read_index_ |-> 0]

\* write_partial without the shift that puts the bits at the write cursor
write_partial_unshifted(b, ub) ==
  LET partial == BitInBlock(b.write_index)
      available == Min(block_size - partial, b.count)
      mask == And(IntMask(partial + available, ub), Not(IntMask(partial, ub)))
      k == BlockOf(b.write_index)
      cleared == And(At(b.buffer, k), Not(mask))
      bits == And(Cast(b.value, block_size), IntMask(available, ub))
  IN  [buffer |-> Put(b.buffer, k, Or(cleared, bits)),
       write_index |-> b.write_index + available,
       value |-> Shr(b.value, available),
       count |-> b.count - available]

\* write_partial with a mask that also covers the bits below the write cursor
write_partial_clearing(b, ub) ==
  LET partial == BitInBlock(b.write_index)
      available == Min(block_size - partial, b.count)
      mask == IntMask(partial + available, ub)
      k == BlockOf(b.write_index)
      cleared == And(At(b.buffer, k), Not(mask))
      bits == Shl(And(Cast(b.value, block_size), IntMask(available, ub)), partial)
  IN  [buffer |-> Put(b.buffer, k, Or(cleared, bits)),
       write_index |-> b.write_index + available,
       value |-> Shr(b.value, available),
       count |-> b.count - available]

\* write(count, value), first part: fill the partially filled block
write_partial(b, ub) ==
  LET partial == BitInBlock(b.write_index)
      available == Min(block_size - partial, b.count)
      mask == And(IntMask(partial + available, ub), Not(IntMask(partial, ub)))
      k == BlockOf(b.write_index)
      cleared == And(At(b.buffer, k), Not(mask))
      bits == Shl(And(Cast(b.value, block_size), IntMask(available, ub)), partial)
  IN  [buffer |-> Put(b.buffer, k, Or(cleared, bits)),
       write_index |-> b.write_index + available,
       value |-> Shr(b.value, available),
       count |-> b.count - available]

\* write(count, value), second part: write the next bits one block at a time
RECURSIVE write_blocks(_)
write_blocks(b) ==
  IF b.count >= block_size
  THEN write_blocks([buffer |-> Put(b.buffer, BlockOf(b.write_index), And(Cast(b.value, block_size), all_ones)),
                     write_index |-> b.write_index + block_size,
                     value |-> IF block_size >= Width(b.value) THEN Zero(Width(b.value))
                               ELSE Shr(b.value, block_size),
                     count |-> b.count - block_size])
  ELSE b

\* write(count, value), third part: partially fill the next block with the last bits
write_last(b, ub) ==
  LET mask == IntMask(b.count, ub)
      k == BlockOf(b.write_index)
      cleared == And(At(b.buffer, k), Not(mask))
  IN  [buffer |-> Put(b.buffer, k, Or(cleared, And(Cast(b.value, block_size), mask))),
       write_index |-> b.write_index + b.count,
       value |-> Shr(b.value, b.count),
       count |-> 0]

\* write's check of its parameters, made before anything else
write_asserts(count, value) == count <= Width(value)

\* append the first `count` bits from `value`
write(s, count, value, ub) ==
  IF count = 0 THEN s
  ELSE LET size == IF s.write_index_ + count > s.size_ THEN s.write_index_ + count ELSE s.size_
           buffer == IF s.write_index_ + count > s.size_ /\ to_bit_size(Len(s.buffer_)) < size
                     THEN resize(s.buffer_, to_block_count(size))
                     ELSE s.buffer_
           b0 == [buffer |-> buffer, write_index |-> s.write_index_, value |-> value, count |-> count]
           b1 == IF BitInBlock(b0.write_index) > 0 THEN write_partial(b0, ub) ELSE b0
           b2 == write_blocks(b1)
           b3 == IF b2.count > 0 THEN write_last(b2, ub) ELSE b2
       IN  [s EXCEPT !.buffer_ = b3.buffer, !.size_ = size, !.write_index_ = b3.write_index]

\* write one bit to the bitstream
write_bit(s, value) ==
  LET size == IF s.write_index_ + 1 > s.size_ THEN s.write_index_ + 1 ELSE s.size_
      buffer == IF s.write_index_ + 1 > s.size_ /\ to_bit_size(Len(s.buffer_)) < size
                THEN resize(s.buffer_, to_block_count(size))
                ELSE s.buffer_
      mask == ShlOne(BitInBlock(s.write_index_), "out")
      k == BlockOf(s.write_index_)
      block == IF value # 0 THEN Or(At(buffer, k), mask) ELSE And(At(buffer, k), Not(mask))
  IN  [s EXCEPT !.buffer_ = Put(buffer, k, block), !.size_ = size, !.write_index_ = s.write_index_ + 1]

\* peek, first part: read from the partially read block
peek_partial(buffer, p, count, w) ==
  LET partial == BitInBlock(p.read_index)
      available == Min(block_size - partial, count)
      mask == IntMask(available, "modulo")
  IN  [read_index |-> p.read_index + available,
       to_read |-> p.to_read - available,
       read |-> p.read + available,
       value |-> Cast(And(Shr(At(buffer, BlockOf(p.read_index)), partial), mask), w),
       ok |-> p.ok /\ InBuffer(buffer, BlockOf(p.read_index))]

\* peek, second part: read the next bits one block at a time
RECURSIVE peek_blocks(_, _, _)
peek_blocks(buffer, p, w) ==
  IF p.to_read >= block_size
  THEN peek_blocks(buffer,
                   [read_index |-> p.read_index + block_size,
                    to_read |-> p.to_read - block_size,
                    read |-> p.read + block_size,
                    value |-> Or(p.value, Shl(Cast(At(buffer, BlockOf(p.read_index)), w), p.read)),
                    ok |-> p.ok /\ InBuffer(buffer, BlockOf(p.read_index))],
                   w)
  ELSE p

\* peek_last without the mask that cuts the block at the bits asked for
peek_last_unmasked(buffer, p, w) ==
  [read_index |-> p.read_index + p.to_read,
   to_read |-> 0,
   read |-> p.read + p.to_read,
   value |-> Or(p.value, Shl(Cast(At(buffer, BlockOf(p.read_index)), w), p.read)),
   ok |-> p.ok /\ InBuffer(buffer, BlockOf(p.read_index))]

\* peek, third part: read part of the next block into the last bits
peek_last(buffer, p, w) ==
  LET mask == IntMask(p.to_read, "modulo")
  IN  [read_index |-> p.read_index + p.to_read,
       to_read |-> 0,
       read |-> p.read + p.to_read,
       value |-> Or(p.value, Shl(Cast(And(At(buffer, BlockOf(p.read_index)), mask), w), p.read)),
       ok |-> p.ok /\ InBuffer(buffer, BlockOf(p.read_index))]

\* peek that checks its parameters after the count is cut to the bits that remain
peek_clipped(s, count, w) ==
  LET c == Min(count, s.size_ - s.read_index_)
      p0 == [read_index |-> s.read_index_, to_read |-> c, read |-> 0, value |-> Zero(w), ok |-> c <= w]
      p1 == IF BitInBlock(p0.read_index) > 0 THEN peek_partial(s.buffer_, p0, c, w) ELSE p0
      p2 == peek_blocks(s.buffer_, p1, w)
      p3 == IF p2.to_read > 0 THEN peek_last(s.buffer_, p2, w) ELSE p2
  IN  [count |-> c, value |-> p3.value,
       ok |-> p3.ok /\ (p1.to_read = 0 \/ BitInBlock(p1.read_index) = 0) /\ p3.read = c]

\* peek up to `count` bits into a value of w bits: the count and the value it returns;
\* ok tells that no assertion failed and that every block touched is inside the buffer
peek(s, count, w) ==
  LET c == Min(count, s.size_ - s.read_index_)
      p0 == [read_index |-> s.read_index_, to_read |-> c, read |-> 0, value |-> Zero(w), ok |-> count <= w]
      p1 == IF BitInBlock(p0.read_index) > 0 THEN peek_partial(s.buffer_, p0, c, w) ELSE p0
      p2 == peek_blocks(s.buffer_, p1, w)
      p3 == IF p2.to_read > 0 THEN peek_last(s.buffer_, p2, w) ELSE p2
  IN  [count |-> c, value |-> p3.value,
       ok |-> p3.ok /\ (p1.to_read = 0 \/ BitInBlock(p1.read_index) = 0) /\ p3.read = c]

\* read that advances the read cursor by the count asked for
read_requested(s, count, w) ==
  LET r == peek(s, count, w)
  IN  [stream |-> [s EXCEPT !.read_index_ = @ + count], count |-> r.count, value |-> r.value, ok |-> r.ok]

\* read: peek, then advance the read cursor by what peek returned
read(s, count, w) ==
  LET r == peek(s, count, w)
  IN  [stream |-> [s EXCEPT !.read_index_ = @ + r.count], count |-> r.count, value |-> r.value, ok |-> r.ok]

\* skip up to `count` bits
skip(s, count) ==
  LET c == Min(count, s.size_ - s.read_index_)
  IN  [stream |-> [s EXCEPT !.read_index_ = @ + c], count |-> c]

\* bit i of the stream, as stored in the blocks
StreamBit(s, i) == At(s.buffer_, BlockOf(i))[BitInBlock(i)]

(***************************************************************************)
(* Numbers and words.                                                      *)
(***************************************************************************)
\* the number n (below 2^31) as a value of w bits
ToBits(n, w) == [i \in 0..(w - 1) |-> IF i < 31 THEN (n \div (2 ^ i)) % 2 ELSE 0]

\* the number a value stands for (the value must be below 2^31)
RECURSIVE ToNatFrom(_, _)
ToNatFrom(v, i) == IF i \notin DOMAIN v THEN 0 ELSE v[i] + 2 * ToNatFrom(v, i + 1)

ToNat(v) == ToNatFrom(v, 0)

\* the value whose bytes, least significant first, are given
FromBytes(bytes) == [i \in 0..(8 * Len(bytes) - 1) |-> (bytes[(i \div 8) + 1] \div (2 ^ (i % 8))) % 2]

(***************************************************************************)
(* invert.h: invert_bits(value, bits) reverses the order of the lowest     *)
(* `bits` bits of value, taking them one at a time from the least          *)
(* significant end; the bits above them are not carried over.              *)
(***************************************************************************)
\* one pass of the loop: move the lowest bit of the value to the result
invert_step(value, result) ==
  <<Shr(value, 1), Or(Shl(result, 1), And(value, ToBits(1, Width(value))))>>

\* the value and the result after `bits` passes: the first half of the passes, then the rest
RECURSIVE invert_loop(_, _, _)
invert_loop(value, result, bits) ==
  IF bits <= 0 THEN <<value, result>>
  ELSE IF bits = 1 THEN invert_step(value, result)
  ELSE With(invert_loop(value, result, bits \div 2),
            LAMBDA half : invert_loop(half[1], half[2], bits - (bits \div 2)))

\* invert_bits that leaves the last bit in place
invert_bits_short(value, bits) == invert_loop(value, Zero(Width(value)), bits - 1)[2]

invert_bits(value, bits) == invert_loop(value, Zero(Width(value)), bits)[2]

(***************************************************************************)
(* huffman.h: class huffman_encoding.  The alphabet of the source has 256  *)
(* symbols; the model runs the same code on an alphabet of alphabet_size   *)
(* symbols 0..alphabet_size-1.                                             *)
(***************************************************************************)
Symbols == 0..(alphabet_size - 1)

\* size of the header: 64 + 64 + 16 bits and 6 bits per symbol
header_size_ == 64 + 64 + 16 + 6 * alphabet_size

\* default constructor: a neutral coding that encodes each symbol with itself
huffman_default ==
  [weights_ |-> [i \in Symbols |-> 0],
   lengths_ |-> [i \in Symbols |-> alphabet_bits],
   encoding_ |-> [i \in Symbols |-> Cast(invert_bits(ToBits(i, 8), alphabet_bits), 64)],
   original_size_ |-> 0,
   encoded_size_ |-> 0]

\* scan_input: count the occurrences of each symbol in the input data
RECURSIVE count_symbols(_, _)
count_symbols(weights, data) ==
  IF data = <<>> THEN weights
  ELSE count_symbols([weights EXCEPT ![Head(data)] = @ + 1], Tail(data))

\* scan_input that forgets what was scanned before
scan_input_reset(h, data) ==
  [h EXCEPT !.original_size_ = Len(data), !.weights_ = count_symbols([i \in Symbols |-> 0], data)]

\* scan_input that also clears the code lengths
scan_input_clearing(h, data) ==
  [h EXCEPT !.original_size_ = @ + Len(data), !.weights_ = count_symbols(@, data),
            !.lengths_ = [i \in Symbols |-> 0]]

scan_input(h, data) ==
  [h EXCEPT !.original_size_ = @ + Len(data), !.weights_ = count_symbols(@, data)]

(***************************************************************************)
(* get_code_lenghts_from_data.  The nodes are numbered from 1 in the order *)
(* they are created, the leaf of symbol i being node i + 1; parent 0 is    *)
(* nullptr.  The queue is the set of the nodes in the priority queue.      *)
(***************************************************************************)
\* the nodes and the queue before the first merge
tree_leaves(h) ==
  [nodes |-> [i \in 1..alphabet_size |-> [parent |-> 0, weight |-> h.weights_[i - 1], height |-> 0]],
   queue |-> 1..alphabet_size,
   root |-> 0]

\* compare_nodes that puts the taller of two nodes of equal weight on top
compare_nodes_taller(left, right) ==
  IF left.weight = right.weight THEN left.height < right.height ELSE left.weight > right.weight

\* compare_nodes that orders the queue by height alone, whatever the weights
compare_nodes_by_height(left, right) == left.height > right.height

compare_nodes(left, right) ==
  IF left.weight = right.weight THEN left.height > right.height ELSE left.weight > right.weight

\* queue.top() of a queue ordered by weight alone
Tops_by_weight(nodes, queue) ==
  {x \in queue : \A y \in queue : nodes[x].weight <= nodes[y].weight}

\* queue.top(): a node that compares less than no other node of the queue.
\* std::priority_queue leaves the choice among equivalent nodes open.
Tops(nodes, queue) ==
  {x \in queue : \A y \in queue : ~compare_nodes(nodes[x], nodes[y])}

\* merge that takes the height of the new node from the first of the two nodes alone
merge_first_height(t, first, second) ==
  LET node == Len(t.nodes) + 1
      rest == t.queue \ {first, second}
      made == [parent |-> 0,
               weight |-> t.nodes[first].weight + t.nodes[second].weight,
               height |-> t.nodes[first].height + 1]
  IN  [nodes |-> [i \in 1..node |->
                    IF i = node THEN made
                    ELSE IF i \in {first, second} THEN [t.nodes[i] EXCEPT !.parent = node]
                    ELSE t.nodes[i]],
       queue |-> IF rest = {} THEN {} ELSE rest \cup {node},
       root |-> IF rest = {} THEN node ELSE t.root]

\* one iteration of the merge loop, having popped first and then second
merge(t, first, second) ==
  LET node == Len(t.nodes) + 1
      rest == t.queue \ {first, second}
      made == [parent |-> 0,
               weight |-> t.nodes[first].weight + t.nodes[second].weight,
               height |-> Max(t.nodes[first].height, t.nodes[second].height) + 1]
  IN  [nodes |-> [i \in 1..node |->
                    IF i = node THEN made
                    ELSE IF i \in {first, second} THEN [t.nodes[i] EXCEPT !.parent = node]
                    ELSE t.nodes[i]],
       queue |-> IF rest = {} THEN {} ELSE rest \cup {node},
       root |-> IF rest = {} THEN node ELSE t.root]

\* the number of steps from a node up to the root
RECURSIVE distance(_, _)
distance(t, node) == IF node = t.root THEN 0 ELSE 1 + distance(t, t.nodes[node].parent)

RECURSIVE Sum(_, _)
Sum(f, set) ==
  IF set = {} THEN 0
  ELSE LET x == CHOOSE y \in set : TRUE IN f[x] + Sum(f, set \ {x})

\* code_lengths that counts the nodes on the way to the root, the root included
code_lengths_nodes(h, t) ==
  LET lengths == [i \in Symbols |-> distance(t, i + 1) + 1]
  IN  [h EXCEPT !.lengths_ = lengths,
                !.encoded_size_ = @ + Sum([i \in Symbols |-> h.weights_[i] * lengths[i]], Symbols)]

\* code_lengths that adds the length of each symbol once, whatever its weight
code_lengths_unweighted(h, t) ==
  LET lengths == [i \in Symbols |-> distance(t, i + 1)]
  IN  [h EXCEPT !.lengths_ = lengths,
                !.encoded_size_ = @ + Sum(lengths, Symbols)]

\* traverse the tree and count the encoding bit lengths
code_lengths(h, t) ==
  LET lengths == [i \in Symbols |-> distance(t, i + 1)]
  IN  [h EXCEPT !.lengths_ = lengths,
                !.encoded_size_ = @ + Sum([i \in Symbols |-> h.weights_[i] * lengths[i]], Symbols)]

\* the assertions that follow the merge loop
tree_asserts(t) ==
  /\ t.nodes[t.root].height <= 64
  /\ t.queue = {}
  /\ Len(t.nodes) = alphabet_size * 2 - 1

(***************************************************************************)
(* build_canonical_coding.                                                 *)
(***************************************************************************)
\* 1. the symbols and their code lengths in a single variable
sortable_key(lengths, i) == lengths[i] * 65536 + i

\* 2. std::sort of the keys
sorted_keys(lengths) ==
  SortSeq([i \in 1..alphabet_size |-> sortable_key(lengths, i - 1)], LAMBDA a, b : a < b)

\* the code length held by a key
key_size(key) == (key \div 65536) % 65536

\* the symbol held by a key
key_symbol(key) == key % 65536

\* canonical_values that extends a longer code without incrementing it first
RECURSIVE canonical_values_extended(_, _, _, _)
canonical_values_extended(sortable, i, value, prev_size) ==
  IF i > Len(sortable) THEN <<>>
  ELSE IF i = 1 THEN <<Zero(64)>> \o canonical_values_extended(sortable, 2, Zero(64), key_size(sortable[1]))
  ELSE IF key_size(sortable[i]) > prev_size
  THEN With(Shl(value, key_size(sortable[i]) - prev_size), LAMBDA next :
         <<next>> \o canonical_values_extended(sortable, i + 1, next, key_size(sortable[i])))
  ELSE With(Inc(value), LAMBDA next :
         <<next>> \o canonical_values_extended(sortable, i + 1, next, prev_size))

\* 3. the code value of each entry of the sorted keys, before bit reversal
RECURSIVE canonical_values(_, _, _, _)
canonical_values(sortable, i, value, prev_size) ==
  IF i > Len(sortable) THEN <<>>
  ELSE IF i = 1 THEN <<Zero(64)>> \o canonical_values(sortable, 2, Zero(64), key_size(sortable[1]))
  ELSE IF key_size(sortable[i]) > prev_size
  THEN With(Shl(Inc(value), key_size(sortable[i]) - prev_size), LAMBDA next :
         <<next>> \o canonical_values(sortable, i + 1, next, key_size(sortable[i])))
  ELSE With(Inc(value), LAMBDA next :
         <<next>> \o canonical_values(sortable, i + 1, next, prev_size))

\* the table entry of a symbol: the position of the symbol in the sorted keys
position_of(sortable, symbol) == CHOOSE i \in 1..Len(sortable) : key_symbol(sortable[i]) = symbol

\* store the lengths and the bit-reversed values of the sorted keys
store_coding(h, sortable, values) ==
  [h EXCEPT !.lengths_ = [s \in Symbols |-> key_size(sortable[position_of(sortable, s)])],
            !.encoding_ = [s \in Symbols |->
                             invert_bits(values[position_of(sortable, s)],
                                         key_size(sortable[position_of(sortable, s)]))]]

\* build_canonical_coding that stores the values without reversing their bits
build_canonical_coding_msb(h) ==
  With(sorted_keys(h.lengths_), LAMBDA sortable :
    With(canonical_values(sortable, 1, Zero(64), 0), LAMBDA values :
      [h EXCEPT !.lengths_ = [s \in Symbols |-> key_size(sortable[position_of(sortable, s)])],
                !.encoding_ = [s \in Symbols |-> values[position_of(sortable, s)]]]))

build_canonical_coding(h) ==
  With(sorted_keys(h.lengths_), LAMBDA sortable :
    With(canonical_values(sortable, 1, Zero(64), 0), LAMBDA values :
      store_coding(h, sortable, values)))

(***************************************************************************)
(* serialise, and the encoding of one symbol as the encode driver does it. *)
(***************************************************************************)
\* write_lengths that writes the size of each symbol's coding as it is
RECURSIVE write_lengths_raw(_, _, _, _)
write_lengths_raw(s, lengths, i, ub) ==
  IF i = alphabet_size THEN s
  ELSE write_lengths_raw(write(s, 6, ToBits(lengths[i], 32), ub), lengths, i + 1, ub)

\* write_lengths that gives every symbol a whole byte
RECURSIVE write_lengths_bytes(_, _, _, _)
write_lengths_bytes(s, lengths, i, ub) ==
  IF i = alphabet_size THEN s
  ELSE write_lengths_bytes(write(s, 8, ToBits(lengths[i] - 1, 32), ub), lengths, i + 1, ub)

RECURSIVE write_lengths(_, _, _, _)
write_lengths(s, lengths, i, ub) ==
  IF i = alphabet_size THEN s
  ELSE write_lengths(write(s, 6, ToBits(lengths[i] - 1, 32), ub), lengths, i + 1, ub)

serialise(h, s, ub) ==
  LET s1 == write(s, 64, ToBits(header_size_ + h.encoded_size_, 64), ub)
      s2 == write(s1, 64, ToBits(h.original_size_, 64), ub)
      s3 == write(s2, 16, ToBits(alphabet_size, 32), ub)
  IN  write_lengths(s3, h.lengths_, 0, ub)

\* encode that writes the symbol itself in place of its code
encode_neutral(h, s, symbol, ub) == write(s, h.lengths_[symbol], ToBits(symbol, 64), ub)

encode(h, s, symbol, ub) == write(s, h.lengths_[symbol], h.encoding_[symbol], ub)

(***************************************************************************)
(* The rest of the stream interface the drivers use: seekg, tellg,         *)
(* reserve, bytes, from_bytes and resize.                                  *)
(***************************************************************************)
seekg(s, position) == [s EXCEPT !.read_index_ = position]

tellg(s) == s.read_index_

\* reserve space in the underlying buffer for `bitcount` bits
reserve(s, bitcount) == [s EXCEPT !.buffer_ = resize(@, to_block_count(bitcount))]

\* reset and clear the stream
reset(s) == [buffer_ |-> <<>>, size_ |-> 0, write_index_ |-> 0, read_index_ |-> 0]

\* the stream as bytes: byte i is taken from block i / 4
bytes(s) ==
  [i \in 1..((s.size_ + 7) \div 8) |->
     Cast(Shr(At(s.buffer_, (i - 1) \div 4), ((i - 1) % 4) * 8), 8)]

\* a stream over the given bytes: bit j of byte i is bit 8i + j of the stream
from_bytes(file) ==
  [buffer_ |-> [k \in 1..to_block_count(8 * Len(file)) |->
                  [j \in 0..(block_size - 1) |->
                     IF 4 * (k - 1) + (j \div 8) < Len(file)
                     THEN file[4 * (k - 1) + (j \div 8) + 1][j % 8]
                     ELSE 0]],
   size_ |-> 8 * Len(file),
   write_index_ |-> 8 * Len(file),
   read_index_ |-> 0]

\* cut the stream to `bitcount` bits
stream_resize(s, bitcount) ==
  [s EXCEPT !.size_ = bitcount,
            !.buffer_ = resize(@, to_block_count(bitcount)),
            !.write_index_ = Min(@, bitcount),
            !.read_index_ = Min(@, bitcount)]

(***************************************************************************)
(* deserialise and decode.                                                 *)
(***************************************************************************)
\* read the 6-bit fields: each holds the length of a symbol's code, minus 1
RECURSIVE read_lengths(_, _, _)
read_length(r, lengths, i) ==
  IF r.count < 6 THEN [stream |-> r.stream, lengths |-> lengths, ok |-> FALSE]
  ELSE read_lengths(r.stream, [lengths EXCEPT ![i] = ToNat(r.value) + 1], i + 1)

read_lengths(s, lengths, i) ==
  IF i = alphabet_size THEN [stream |-> s, lengths |-> lengths, ok |-> TRUE]
  ELSE read_length(read(s, 6, 8), lengths, i)

\* check the header fields and the alphabet size, take the lengths and rebuild the codes
deserialise_header(h, total, original, alphabet, table) ==
  IF /\ total.count = 64
     /\ original.count = 64
     /\ alphabet.count = 16
     /\ ToNat(alphabet.value) = alphabet_size
     /\ table.ok
  THEN [huffman |-> build_canonical_coding(
                      [h EXCEPT !.original_size_ = ToNat(original.value),
                                !.encoded_size_ = ToNat(total.value) - header_size_,
                                !.lengths_ = table.lengths]),
        stream |-> table.stream,
        ok |-> TRUE]
  ELSE [huffman |-> h, stream |-> table.stream, ok |-> FALSE]

\* read the header: the total size, the original size, the alphabet size and the lengths
deserialise_alphabet(h, total, original, alphabet) ==
  deserialise_header(h, total, original, alphabet, read_lengths(alphabet.stream, h.lengths_, 0))

deserialise_original(h, total, original) ==
  deserialise_alphabet(h, total, original, read(original.stream, 16, 16))

deserialise_total(h, total) ==
  deserialise_original(h, total, read(total.stream, 64, 64))

deserialise(h, s) == deserialise_total(h, read(s, 64, 64))

\* the per-length boundaries of the canonical code: the number of symbols with a
\* shorter code, the number of symbols of that length and the first code value
shorter_count(sortable, length) ==
  Cardinality({i \in 1..Len(sortable) : key_size(sortable[i]) < length})

length_count(sortable, length) ==
  Cardinality({i \in 1..Len(sortable) : key_size(sortable[i]) = length})

\* read one bit at a time into a running prefix until it falls within the
\* codes of its length, or the stream has no further bits
RECURSIVE decode_bits(_, _, _, _, _)
decode_bit(sortable, values, r, code, length) ==
  LET offset == shorter_count(sortable, length + 1)
      count == length_count(sortable, length + 1)
  IN  IF r.count = 0 \/ length >= 64 THEN [stream |-> r.stream, found |-> FALSE, symbol |-> 0]
      ELSE IF count > 0 /\ code >= ToNat(values[offset + 1]) /\ code - ToNat(values[offset + 1]) < count
      THEN [stream |-> r.stream, found |-> TRUE,
            symbol |-> key_symbol(sortable[offset + 1 + code - ToNat(values[offset + 1])])]
      ELSE decode_bits(sortable, values, r.stream, code, length + 1)

decode_bits(sortable, values, s, prefix, length) ==
  With(read(s, 1, 8), LAMBDA r : decode_bit(sortable, values, r, 2 * prefix + r.value[0], length))

decode(h, s) ==
  With(sorted_keys(h.lengths_), LAMBDA sortable :
    With(canonical_values(sortable, 1, Zero(64), 0), LAMBDA values :
      decode_bits(sortable, values, s, 0, 0)))

(***************************************************************************)
(* The calls the stream is driven with: the widths of the value types, the *)
(* counts asked for and the values written.                                *)
(***************************************************************************)
\* the 64-bit word written by the stream test
TestWord == FromBytes(<<229, 177, 202, 237, 92, 30, 10, 12>>)

\* <<width of the value type, count>>
WriteCalls == {<<8, 0>>, <<8, 1>>, <<8, 8>>, <<16, 9>>, <<32, 24>>, <<32, 32>>, <<64, 60>>, <<64, 64>>}

ReadCalls == {<<8, 6>>, <<16, 16>>, <<32, 32>>, <<64, 40>>, <<64, 64>>}

SkipCounts == {3, 29}

WriteValues(w) == {Cast(TestWord, w), Not(Zero(w))}

\* what a write leaves in the written history: the bits land at the write cursor
Overwrite(history, at, bits) ==
  [i \in 1..Max(Len(history), at + Len(bits)) |->
     IF i > at /\ i <= at + Len(bits) THEN bits[i - at] ELSE history[i]]

\* marks a stream position that was skipped, not read
Skipped == 2

NoCall == [op |-> "none", width |-> 0, count |-> 0, ret |-> 0, value |-> <<>>, pos |-> 0, ok |-> TRUE]

(***************************************************************************)
(* The stream under arbitrary calls.                                       *)
(***************************************************************************)
NoInvert == [pc |-> "idle"]

NoTree == [nodes |-> <<>>, queue |-> {}, root |-> 0]

NoCanon == [sortable |-> <<>>, values |-> <<>>]

NoRun == [pc |-> "idle", driver |-> "none", data |-> <<>>, pos |-> 0, header_size |-> 0,
          file |-> <<>>, decoded |-> <<>>]

StreamIdle ==
  /\ stream = bitstream_default
  /\ written = <<>>
  /\ delivered = <<>>
  /\ last = NoCall
  /\ ops = 0

HuffmanIdle ==
  /\ huffman = huffman_default
  /\ tree = NoTree
  /\ canon = NoCanon
  /\ decoder = huffman_default
  /\ run = NoRun

StreamInit ==
  /\ inv = NoInvert
  /\ HuffmanIdle
  /\ stream = bitstream_default
  /\ written = <<>>
  /\ delivered = <<>>
  /\ last = NoCall
  /\ ops = 0

Write ==
  /\ ops < MaxOps
  /\ \E c \in WriteCalls : \E value \in WriteValues(c[1]) : \E ub \in ShiftOutcomes :
       /\ c[2] <= Width(value)
       /\ stream' = write(stream, c[2], value, ub)
       /\ written' = Overwrite(written, stream.write_index_, LowBits(value, c[2]))
       /\ last' = [op |-> "write", width |-> c[1], count |-> c[2], ret |-> 0,
                   value |-> value, pos |-> stream.write_index_, ok |-> TRUE]
  /\ ops' = ops + 1
  /\ UNCHANGED <<delivered, inv>>
  /\ UNCHANGED huffmanVars

Peek ==
  /\ ops < MaxOps
  /\ \E c \in ReadCalls :
       /\ c[2] <= c[1]
       /\ LET r == peek(stream, c[2], c[1])
          IN  last' = [op |-> "peek", width |-> c[1], count |-> c[2], ret |-> r.count,
                       value |-> r.value, pos |-> stream.read_index_, ok |-> r.ok]
  /\ ops' = ops + 1
  /\ UNCHANGED <<stream, written, delivered, inv>>
  /\ UNCHANGED huffmanVars

Read ==
  /\ ops < MaxOps
  /\ \E c \in ReadCalls :
       /\ c[2] <= c[1]
       /\ LET r == read(stream, c[2], c[1])
          IN  /\ stream' = r.stream
              /\ delivered' = delivered \o LowBits(r.value, r.count)
              /\ last' = [op |-> "read", width |-> c[1], count |-> c[2], ret |-> r.count,
                          value |-> r.value, pos |-> stream.read_index_, ok |-> r.ok]
  /\ ops' = ops + 1
  /\ UNCHANGED <<written, inv>>
  /\ UNCHANGED huffmanVars

Skip ==
  /\ ops < MaxOps
  /\ \E count \in SkipCounts :
       LET r == skip(stream, count)
       IN  /\ stream' = r.stream
           /\ delivered' = delivered \o [i \in 1..r.count |-> Skipped]
           /\ last' = [op |-> "skip", width |-> 0, count |-> count, ret |-> r.count,
                       value |-> <<>>, pos |-> stream.read_index_, ok |-> TRUE]
  /\ ops' = ops + 1
  /\ UNCHANGED <<written, inv>>
  /\ UNCHANGED huffmanVars

StreamNext == Write \/ Peek \/ Read \/ Skip

SpecStream == StreamInit /\ [][StreamNext]_vars

(***************************************************************************)
(* The stream under calls that may ask for more bits than the value holds: *)
(* a failed assertion ends the program, and no call follows it.            *)
(***************************************************************************)
\* <<width of the value type, count>>, with the count above the width
WideCalls == {<<8, 9>>, <<16, 40>>, <<32, 33>>, <<64, 65>>}

Failed(op, c, value) ==
  [op |-> op, width |-> c[1], count |-> c[2], ret |-> 0, value |-> value, pos |-> 0, ok |-> FALSE]

WriteCall ==
  /\ ops < MaxOps /\ last.ok
  /\ \E c \in WriteCalls \cup WideCalls : \E value \in WriteValues(c[1]) : \E ub \in ShiftOutcomes :
       IF write_asserts(c[2], value)
       THEN /\ stream' = write(stream, c[2], value, ub)
            /\ written' = Overwrite(written, stream.write_index_, LowBits(value, c[2]))
            /\ last' = [op |-> "write", width |-> c[1], count |-> c[2], ret |-> 0,
                        value |-> value, pos |-> stream.write_index_, ok |-> TRUE]
       ELSE /\ last' = Failed("write", c, value)
            /\ UNCHANGED <<stream, written>>
  /\ ops' = ops + 1
  /\ UNCHANGED <<delivered, inv>>
  /\ UNCHANGED huffmanVars

PeekCall ==
  /\ ops < MaxOps /\ last.ok
  /\ \E c \in ReadCalls \cup WideCalls : \E r \in {peek(stream, c[2], c[1]).ok} :
       last' = IF r
               THEN [op |-> "peek", width |-> c[1], count |-> c[2], ret |-> peek(stream, c[2], c[1]).count,
                     value |-> peek(stream, c[2], c[1]).value, pos |-> stream.read_index_, ok |-> TRUE]
               ELSE Failed("peek", c, <<>>)
  /\ ops' = ops + 1
  /\ UNCHANGED <<stream, written, delivered, inv>>
  /\ UNCHANGED huffmanVars

ReadCall ==
  /\ ops < MaxOps /\ last.ok
  /\ \E c \in ReadCalls \cup WideCalls : \E ok \in {read(stream, c[2], c[1]).ok} :
       IF ok
       THEN \E r \in {read(stream, c[2], c[1])} :
              /\ stream' = r.stream
              /\ delivered' = delivered \o LowBits(r.value, r.count)
              /\ last' = [op |-> "read", width |-> c[1], count |-> c[2], ret |-> r.count,
                          value |-> r.value, pos |-> stream.read_index_, ok |-> TRUE]
       ELSE /\ last' = Failed("read", c, <<>>)
            /\ UNCHANGED <<stream, delivered>>
  /\ ops' = ops + 1
  /\ UNCHANGED <<written, inv>>
  /\ UNCHANGED huffmanVars

AssertNext == WriteCall \/ PeekCall \/ ReadCall

SpecAssert == StreamInit /\ [][AssertNext]_vars

(***************************************************************************)
(* A stream, default constructed or constructed with bits set, is written  *)
(* and then turned into bytes.                                             *)
(***************************************************************************)
FillCounts == {0, 3, 8, 33}

BytesInit ==
  /\ inv = NoInvert
  /\ HuffmanIdle
  /\ \E bitcount \in FillCounts : \E value \in {0, 1} :
       /\ stream \in {bitstream_default, bitstream_fill(bitcount, value)}
       /\ written = [i \in 1..stream.size_ |-> value]
  /\ delivered = <<>>
  /\ last = NoCall
  /\ ops = 0

BytesWrite == run.pc = "idle" /\ Write

Bytes ==
  /\ run.pc = "idle"
  /\ run' = [run EXCEPT !.pc = "bytes", !.file = bytes(stream)]
  /\ UNCHANGED <<inv, huffman, tree, canon, decoder>>
  /\ UNCHANGED streamVars

BytesNext == BytesWrite \/ Bytes

SpecBytes == BytesInit /\ [][BytesNext]_vars

(***************************************************************************)
(* The invert test.                                                        *)
(***************************************************************************)
\* the calls of the invert test: type width, value, whether `bits` is given, and `bits`
InvertTests ==
  { [width |-> 8, value |-> ToBits(66, 8), given |-> FALSE, bits |-> 8],
    [width |-> 8, value |-> ToBits(66, 8), given |-> TRUE, bits |-> 2],
    [width |-> 16, value |-> ToBits(48879, 16), given |-> FALSE, bits |-> 16],
    [width |-> 32, value |-> ToBits(12648430, 32), given |-> TRUE, bits |-> 24] }

\* further calls: every byte and every number of bits, with and without `bits`
InvertCalls ==
  InvertTests \cup
  { [width |-> 8, value |-> ToBits(n, 8), given |-> g, bits |-> b] :
      n \in 0..(MaxInvertValue - 1), g \in BOOLEAN, b \in 1..8 }

InvertInit ==
  /\ StreamIdle
  /\ HuffmanIdle
  /\ \E c \in InvertCalls :
       inv = [pc |-> "call", width |-> c.width, value |-> c.value, given |-> c.given, bits |-> c.bits]

Invert ==
  /\ inv.pc = "call"
  /\ inv' = [pc |-> "done", width |-> inv.width, value |-> inv.value, given |-> inv.given,
             bits |-> inv.bits,
             result |-> IF inv.given THEN invert_bits(inv.value, inv.bits)
                        ELSE invert_bits(inv.value, inv.width)]
  /\ UNCHANGED streamVars
  /\ UNCHANGED huffmanVars

InvertNext == Invert

SpecInvert == InvertInit /\ [][InvertNext]_vars

(***************************************************************************)
(* Building the model: the constructor huffman_encoding(data, size).       *)
(***************************************************************************)
\* the input data: every sequence of at most MaxData symbols
Inputs == UNION {[1..n -> Symbols] : n \in 0..MaxData}

\* an input with the given number of occurrences of each symbol
RECURSIVE DataOf(_, _)
DataOf(weights, symbol) ==
  IF symbol = alphabet_size THEN <<>>
  ELSE [i \in 1..weights[symbol] |-> symbol] \o DataOf(weights, symbol + 1)

\* the inputs of the build: one input for every table of at most MaxWeight occurrences
BuildInputs == {DataOf(weights, 0) : weights \in [Symbols -> 0..MaxWeight]}

Start(driver, data) ==
  /\ huffman = huffman_default
  /\ tree = NoTree
  /\ canon = NoCanon
  /\ decoder = huffman_default
  /\ run = [pc |-> "scan", driver |-> driver, data |-> data, pos |-> 1, header_size |-> 0,
            file |-> <<>>, decoded |-> <<>>]

BuildInit ==
  /\ StreamIdle
  /\ inv = NoInvert
  /\ \E data \in BuildInputs : Start("build", data)

\* scan the whole input
Scan ==
  /\ run.pc = "scan"
  /\ huffman' = scan_input(huffman, run.data)
  /\ run' = [run EXCEPT !.pc = "leaves"]
  /\ UNCHANGED <<tree, canon, decoder, inv>>
  /\ UNCHANGED streamVars

\* get_code_lenghts_from_data: create the leaves and the priority queue
Leaves ==
  /\ run.pc = "leaves"
  /\ tree' = tree_leaves(huffman)
  /\ run' = [run EXCEPT !.pc = "merge"]
  /\ UNCHANGED <<huffman, canon, decoder, inv>>
  /\ UNCHANGED streamVars

\* get_code_lenghts_from_data: combine the two lowest-weight nodes of the queue
Merge ==
  /\ run.pc = "merge"
  /\ Cardinality(tree.queue) > 1
  /\ \E first \in Tops(tree.nodes, tree.queue) :
       \E second \in Tops(tree.nodes, tree.queue \ {first}) :
         tree' = merge(tree, first, second)
  /\ UNCHANGED <<huffman, canon, decoder, run, inv>>
  /\ UNCHANGED streamVars

\* get_code_lenghts_from_data: the assertions, then the lengths from the tree
Lengths ==
  /\ run.pc = "merge"
  /\ Cardinality(tree.queue) <= 1
  /\ IF tree_asserts(tree)
     THEN /\ huffman' = code_lengths(huffman, tree)
          /\ run' = [run EXCEPT !.pc = "canonical"]
     ELSE /\ run' = [run EXCEPT !.pc = "abort"]
          /\ UNCHANGED huffman
  /\ UNCHANGED <<tree, canon, decoder, inv>>
  /\ UNCHANGED streamVars

\* build the canonical Huffman coding from the code lengths
Canonical ==
  /\ run.pc = "canonical"
  /\ huffman' = build_canonical_coding(huffman)
  /\ \E sortable \in {sorted_keys(huffman.lengths_)} :
       canon' = [sortable |-> sortable, values |-> canonical_values(sortable, 1, Zero(64), 0)]
  /\ run' = [run EXCEPT !.pc = "built"]
  /\ UNCHANGED <<tree, decoder, inv>>
  /\ UNCHANGED streamVars

BuildNext == Scan \/ Leaves \/ Merge \/ Lengths \/ Canonical

SpecBuild == BuildInit /\ [][BuildNext]_vars

(***************************************************************************)
(* scan_input called several times on a default constructed model: the     *)
(* data of the run is the concatenation of the buffers scanned so far.      *)
(***************************************************************************)
MaxScans == 2

\* the buffers given to one call
ScanChunks == {data \in Inputs : Len(data) <= 2}

ScansInit ==
  /\ StreamIdle
  /\ inv = NoInvert
  /\ huffman = huffman_default
  /\ tree = NoTree
  /\ canon = NoCanon
  /\ decoder = huffman_default
  /\ run = [NoRun EXCEPT !.pc = "scans", !.driver = "scans"]

ScanMore ==
  /\ run.pc = "scans"
  /\ run.pos < MaxScans
  /\ \E data \in ScanChunks :
       /\ huffman' = scan_input(huffman, data)
       /\ run' = [run EXCEPT !.data = @ \o data, !.pos = @ + 1]
  /\ UNCHANGED <<tree, canon, decoder, inv>>
  /\ UNCHANGED streamVars

ScansNext == ScanMore

SpecScans == ScansInit /\ [][ScansNext]_vars

(***************************************************************************)
(* get_code_lenghts_from_data where the height of the tree can pass 64:    *)
(* that takes more than 64 symbols and weights of the size of the          *)
(* Fibonacci numbers.  A weight (uint64_t) is held as <<high, low>>, the   *)
(* number high * 2^24 + low; the tables stay far below 2^64.               *)
(***************************************************************************)
\* number of symbols of the alphabet of these tables (256 in the source)
wide_alphabet == 66

WideSymbols == 0..(wide_alphabet - 1)

Wide(n) == <<n \div (2 ^ 24), n % (2 ^ 24)>>

wide_add(a, b) == <<a[1] + b[1] + ((a[2] + b[2]) \div (2 ^ 24)), (a[2] + b[2]) % (2 ^ 24)>>

wide_greater(a, b) == a[1] > b[1] \/ (a[1] = b[1] /\ a[2] > b[2])

\* the product of a weight and a length
wide_times(a, n) == <<a[1] * n + ((a[2] * n) \div (2 ^ 24)), (a[2] * n) % (2 ^ 24)>>

tree_leaves_wide(h) ==
  [nodes |-> [i \in 1..wide_alphabet |-> [parent |-> 0, weight |-> h.weights_[i - 1], height |-> 0]],
   queue |-> 1..wide_alphabet,
   root |-> 0]

compare_nodes_wide(left, right) ==
  IF left.weight = right.weight THEN left.height > right.height
  ELSE wide_greater(left.weight, right.weight)

Tops_wide(nodes, queue) ==
  {x \in queue : \A y \in queue : ~compare_nodes_wide(nodes[x], nodes[y])}

merge_wide(t, first, second) ==
  LET node == Len(t.nodes) + 1
      rest == t.queue \ {first, second}
      made == [parent |-> 0,
               weight |-> wide_add(t.nodes[first].weight, t.nodes[second].weight),
               height |-> Max(t.nodes[first].height, t.nodes[second].height) + 1]
  IN  [nodes |-> [i \in 1..node |->
                    IF i = node THEN made
                    ELSE IF i \in {first, second} THEN [t.nodes[i] EXCEPT !.parent = node]
                    ELSE t.nodes[i]],
       queue |-> IF rest = {} THEN {} ELSE rest \cup {node},
       root |-> IF rest = {} THEN node ELSE t.root]

\* the assertions with a root of height 65 let through
tree_asserts_wide_65(t) ==
  /\ t.nodes[t.root].height <= 65
  /\ t.queue = {}
  /\ Len(t.nodes) = wide_alphabet * 2 - 1

tree_asserts_wide(t) ==
  /\ t.nodes[t.root].height <= 64
  /\ t.queue = {}
  /\ Len(t.nodes) = wide_alphabet * 2 - 1

\* the traversal from a node towards the root, at most `steps` nodes up:
\* <<the node reached, the length counted so far>>
RECURSIVE climb(_, _, _, _)
climb(t, node, steps, length) ==
  IF node = t.root \/ steps = 0 THEN <<node, length>>
  ELSE climb(t, t.nodes[node].parent, steps - 1, length + 1)

\* the number of steps from a node up to the root, counted in three stretches
distance_wide(t, node) ==
  With(climb(t, node, 32, 0),
       LAMBDA a : With(climb(t, a[1], 32, a[2]),
                       LAMBDA b : climb(t, b[1], 32, b[2])[2]))

\* encoded_size_ after the symbols from..(to - 1) are counted
RECURSIVE wide_encoded_size(_, _, _, _)
wide_encoded_size(h, lengths, from, to) ==
  IF from = to THEN Wide(0)
  ELSE IF from + 1 = to THEN wide_times(h.weights_[from], lengths[from])
  ELSE wide_add(wide_encoded_size(h, lengths, from, (from + to) \div 2),
                wide_encoded_size(h, lengths, (from + to) \div 2, to))

code_lengths_wide(h, t) ==
  With([i \in WideSymbols |-> distance_wide(t, i + 1)],
       LAMBDA lengths : [h EXCEPT !.lengths_ = lengths,
                                  !.encoded_size_ = wide_add(@, wide_encoded_size(h, lengths, 0, wide_alphabet))])

\* a table that makes the tree a chain above the symbols of its prefix: each
\* further symbol weighs one more than all the symbols before the previous one
RECURSIVE wide_table(_, _, _)
wide_table(weights, sums, prefix) ==
  IF Len(weights) = wide_alphabet THEN weights
  ELSE LET next == IF Len(weights) < Len(prefix) THEN Wide(prefix[Len(weights) + 1])
                   ELSE wide_add(sums[Len(weights) - 1], Wide(1))
           sum == IF weights = <<>> THEN next ELSE wide_add(sums[Len(sums)], next)
       IN  wide_table(Append(weights, next), Append(sums, sum), prefix)

\* the first weights of the tables: the symbols of the prefix make a tree of height
\* 1, 2 and 3, and the height of the whole tree is wide_alphabet - 1, - 2 and - 5
WidePrefixes == {<<1, 1>>, <<0, 0, 0, 0>>, <<8, 9, 10, 11, 12, 13, 14, 15>>}

WideInit ==
  /\ StreamIdle
  /\ inv = NoInvert
  /\ tree = NoTree
  /\ canon = NoCanon
  /\ decoder = huffman_default
  /\ run = [NoRun EXCEPT !.pc = "leaves", !.driver = "wide"]
  /\ \E prefix \in WidePrefixes : \E weights \in {wide_table(<<>>, <<>>, prefix)} :
       huffman = [weights_ |-> [i \in WideSymbols |-> weights[i + 1]],
                  lengths_ |-> [i \in WideSymbols |-> alphabet_bits],
                  encoded_size_ |-> Wide(0)]

WideLeaves ==
  /\ run.pc = "leaves"
  /\ tree' = tree_leaves_wide(huffman)
  /\ run' = [run EXCEPT !.pc = "merge"]
  /\ UNCHANGED <<huffman, canon, decoder, inv>>
  /\ UNCHANGED streamVars

WideMerge ==
  /\ run.pc = "merge"
  /\ Cardinality(tree.queue) > 1
  /\ \E first \in Tops_wide(tree.nodes, tree.queue) :
       \E second \in Tops_wide(tree.nodes, tree.queue \ {first}) :
         tree' = merge_wide(tree, first, second)
  /\ UNCHANGED <<huffman, canon, decoder, run, inv>>
  /\ UNCHANGED streamVars

WideLengths ==
  /\ run.pc = "merge"
  /\ Cardinality(tree.queue) <= 1
  /\ IF tree_asserts_wide(tree)
     THEN /\ huffman' = code_lengths_wide(huffman, tree)
          /\ run' = [run EXCEPT !.pc = "canonical"]
     ELSE /\ run' = [run EXCEPT !.pc = "abort"]
          /\ UNCHANGED huffman
  /\ UNCHANGED <<tree, canon, decoder, inv>>
  /\ UNCHANGED streamVars

WideNext == WideLeaves \/ WideMerge \/ WideLengths

SpecWide == WideInit /\ [][WideNext]_vars

(***************************************************************************)
(* serialise on its own: on a model as the default constructor leaves it   *)
(* or on a built one, to a stream that is empty or already holds bits.     *)
(***************************************************************************)
HeldBits == {0, 7, 32}

SerialiseInit ==
  /\ written = <<>> /\ delivered = <<>> /\ last = NoCall /\ ops = 0
  /\ inv = NoInvert
  /\ \E held \in HeldBits : stream = write(bitstream_default, held, ToBits(held, 32), "out")
  /\ \E data \in Inputs : Start("serialise", data)

Serialise ==
  /\ run.pc \in {"scan", "built"}
  /\ \E ub \in ShiftOutcomes : stream' = serialise(huffman, stream, ub)
  /\ run' = [run EXCEPT !.pc = "serialised"]
  /\ UNCHANGED <<written, delivered, last, ops, inv, huffman, tree, canon, decoder>>

SerialiseNext == BuildNext \/ Serialise

SpecSerialise == SerialiseInit /\ [][SerialiseNext]_vars

(***************************************************************************)
(* build_canonical_coding on a length table that was not computed from     *)
(* data: lengths_ is a public array, and a header carries any length       *)
(* between 1 and 64 for every symbol.                                      *)
(***************************************************************************)
LengthChoices == {1, 2, 3, 63, 64}

CanonInit ==
  /\ StreamIdle
  /\ inv = NoInvert
  /\ tree = NoTree
  /\ canon = NoCanon
  /\ decoder = huffman_default
  /\ \E lengths \in [Symbols -> LengthChoices] :
       huffman = [huffman_default EXCEPT !.lengths_ = lengths]
  /\ run = [pc |-> "canonical", driver |-> "lengths", data |-> <<>>, pos |-> 1, header_size |-> 0,
            file |-> <<>>, decoded |-> <<>>]

CanonNext == Canonical

SpecCanon == CanonInit /\ [][CanonNext]_vars

(***************************************************************************)
(* The drivers.  "huffman_t" is the test of the model: it encodes and      *)
(* decodes within one stream, reading back what it writes.  "codec" is the *)
(* encode driver followed by the decode driver on the bytes it wrote.      *)
(***************************************************************************)
Drivers == {"huffman_t", "codec"}

Init ==
  /\ StreamIdle
  /\ inv = NoInvert
  /\ \E driver \in Drivers : \E data \in Inputs : Start(driver, data)

\* huffman_t: serialise, take the header size from the stream and skip the header
TestSerialise ==
  /\ run.pc = "built" /\ run.driver = "huffman_t"
  /\ \E ub \in ShiftOutcomes :
       LET s == serialise(huffman, stream, ub)
       IN  /\ stream' = skip(s, s.size_).stream
           /\ run' = [run EXCEPT !.pc = "encode", !.header_size = s.size_]
  /\ UNCHANGED <<written, delivered, last, ops, inv, huffman, tree, canon, decoder>>

\* huffman_t: encode the next byte of the message and read back what was written
TestEncode ==
  /\ run.pc = "encode" /\ run.driver = "huffman_t"
  /\ run.pos <= Len(run.data)
  /\ \E ub \in ShiftOutcomes :
       stream' = read(encode(huffman, stream, run.data[run.pos], ub), 64, 64).stream
  /\ run' = [run EXCEPT !.pos = @ + 1]
  /\ UNCHANGED <<written, delivered, last, ops, inv, huffman, tree, canon, decoder>>

\* huffman_t: read the encoded message from the end of the header, then rewind
TestRewind ==
  /\ run.pc = "encode" /\ run.driver = "huffman_t"
  /\ run.pos > Len(run.data)
  /\ stream' = seekg(read(seekg(stream, run.header_size), 64, 64).stream, 0)
  /\ run' = [run EXCEPT !.pc = "deserialise"]
  /\ UNCHANGED <<written, delivered, last, ops, inv, huffman, tree, canon, decoder>>

\* encode driver: reserve the stream, then write the header
CodecSerialise ==
  /\ run.pc = "built" /\ run.driver = "codec"
  /\ \E ub \in ShiftOutcomes :
       stream' = serialise(huffman, reserve(stream, header_size_ + huffman.encoded_size_), ub)
  /\ run' = [run EXCEPT !.pc = "encode", !.header_size = header_size_]
  /\ UNCHANGED <<written, delivered, last, ops, inv, huffman, tree, canon, decoder>>

\* encode driver: encode the next symbol of the input
CodecEncode ==
  /\ run.pc = "encode" /\ run.driver = "codec"
  /\ run.pos <= Len(run.data)
  /\ \E ub \in ShiftOutcomes :
       stream' = encode(huffman, stream, run.data[run.pos], ub)
  /\ run' = [run EXCEPT !.pos = @ + 1]
  /\ UNCHANGED <<written, delivered, last, ops, inv, huffman, tree, canon, decoder>>

\* encode driver: write the stream out as bytes
CodecOutput ==
  /\ run.pc = "encode" /\ run.driver = "codec"
  /\ run.pos > Len(run.data)
  /\ run' = [run EXCEPT !.pc = "input", !.file = bytes(stream)]
  /\ UNCHANGED <<inv, huffman, tree, canon, decoder>>
  /\ UNCHANGED streamVars

\* decode driver: copy the input buffer to a bitstream
CodecInput ==
  /\ run.pc = "input"
  /\ stream' = from_bytes(run.file)
  /\ run' = [run EXCEPT !.pc = "deserialise"]
  /\ UNCHANGED <<written, delivered, last, ops, inv, huffman, tree, canon, decoder>>

\* both drivers: deserialise the header into a fresh huffman_encoding
Deserialise ==
  /\ run.pc = "deserialise"
  /\ \E d \in {deserialise(huffman_default, stream)} :
         /\ decoder' = d.huffman
         /\ stream' = d.stream
         /\ run' = [run EXCEPT !.pc = IF ~d.ok THEN "failed"
                                      ELSE IF run.driver = "codec" THEN "resize"
                                      ELSE "decode"]
  /\ UNCHANGED <<written, delivered, last, ops, inv, huffman, tree, canon>>

\* the decode driver without the cut: the whole of the file is left to decode
CodecResizeKept ==
  /\ run.pc = "resize"
  /\ run' = [run EXCEPT !.pc = "decode"]
  /\ UNCHANGED <<stream, written, delivered, last, ops, inv, huffman, tree, canon, decoder>>

\* decode driver: cut the bitstream to the size of the encoded message
CodecResize ==
  /\ run.pc = "resize"
  /\ IF stream.size_ >= header_size_ + decoder.encoded_size_
     THEN /\ stream' = stream_resize(stream, header_size_ + decoder.encoded_size_)
          /\ run' = [run EXCEPT !.pc = "decode"]
     ELSE /\ run' = [run EXCEPT !.pc = "abort"]
          /\ UNCHANGED stream
  /\ UNCHANGED <<written, delivered, last, ops, inv, huffman, tree, canon, decoder>>

\* both drivers: decode the next symbol, or stop at the end of the input.
\* huffman_t reads the bits of the symbol once more, which leaves the cursor where decode left it.
Decode ==
  /\ run.pc = "decode"
  /\ \E d \in {decode(decoder, stream)} :
       LET again == read(seekg(d.stream, tellg(stream)), tellg(d.stream) - tellg(stream), 64)
       IN  IF d.found
           THEN /\ stream' = IF run.driver = "huffman_t" THEN again.stream ELSE d.stream
                /\ run' = [run EXCEPT !.decoded = Append(@, d.symbol)]
           ELSE /\ stream' = d.stream
                /\ run' = [run EXCEPT !.pc = "done"]
  /\ UNCHANGED <<written, delivered, last, ops, inv, huffman, tree, canon, decoder>>

Next ==
  \/ Scan \/ Leaves \/ Merge \/ Lengths \/ Canonical
  \/ TestSerialise \/ TestEncode \/ TestRewind
  \/ CodecSerialise \/ CodecEncode \/ CodecOutput \/ CodecInput \/ CodecResize
  \/ Deserialise \/ Decode

Spec == Init /\ [][Next]_vars

(***************************************************************************)
(* Properties of the stream.                                               *)
(***************************************************************************)
\* C5: bit FIFO.  The bits the reads delivered, each at its stream position
\* and least significant bit first, are the bits written at these positions
\* (leading bits of everything written), and the bits not yet read are
\* stored as they were written, whatever writes followed the reads.
BitFifo ==
  /\ Len(written) = stream.size_
  /\ Len(delivered) = stream.read_index_
  /\ stream.read_index_ <= stream.size_
  /\ \A i \in 1..Len(delivered) : delivered[i] # Skipped => delivered[i] = written[i]
  /\ \A i \in (stream.read_index_ + 1)..stream.size_ : StreamBit(stream, i - 1) = written[i]

\* a write that crosses a block boundary, issued after a read that left bits unread
BitFifoWitness ==
  /\ last.op = "write"
  /\ \E i \in 1..Len(delivered) : delivered[i] # Skipped
  /\ stream.read_index_ < last.pos
  /\ BitInBlock(last.pos) > 0
  /\ BlockOf(last.pos) # BlockOf(last.pos + last.count - 1)

\* C6: short read.  read and peek never fail an assertion nor leave the
\* buffer, return min(count, bits remaining) and a value made of exactly
\* the next bits of the stream, with every higher bit zero; skip returns
\* min(count, bits remaining).
ShortRead ==
  /\ last.op \in {"read", "peek", "skip"} =>
       /\ last.ok
       /\ last.ret = Min(last.count, stream.size_ - last.pos)
  /\ last.op \in {"read", "peek"} =>
       \A i \in 0..(last.width - 1) :
         last.value[i] = IF i < last.ret THEN written[last.pos + i + 1] ELSE 0

\* a peek that asked for more bits than remain, in the middle of a block
ShortReadWitness ==
  /\ last.op = "peek"
  /\ last.ret > 0
  /\ last.ret < last.count
  /\ BitInBlock(last.pos) > 0

\* C7: peek versus read.  A peek changes nothing of the stream, so a peek
\* or a read that follows a peek with the same arguments returns the same
\* count and value; a read returns what peek returns in the state it is
\* called in and advances the read cursor by the count it returns.
PeekVersusRead ==
  [][/\ last'.op = "peek" /\ ops' = ops + 1 => stream' = stream
     /\ /\ last.op = "peek" /\ ops' = ops + 1
        /\ last'.op \in {"peek", "read"}
        /\ last'.count = last.count /\ last'.width = last.width
        => last'.ret = last.ret /\ last'.value = last.value
     /\ last'.op = "read" /\ ops' = ops + 1 =>
          /\ last'.ret = peek(stream, last'.count, last'.width).count
          /\ last'.value = peek(stream, last'.count, last'.width).value
          /\ stream'.read_index_ = stream.read_index_ + last'.ret
          /\ stream'.read_index_ <= stream.size_]_vars

\* a read that returned fewer bits than asked for and moved the cursor by that many
PeekVersusReadWitness ==
  /\ last.op = "read"
  /\ last.ret > 0
  /\ last.ret < last.count
  /\ stream.read_index_ = last.pos + last.ret

(***************************************************************************)
(* Properties of invert_bits.                                              *)
(***************************************************************************)
\* C8: invert_bits(value, n) has bit i equal to bit n-1-i of value for every
\* i < n and every bit from n on zero; without `bits` it reverses the whole
\* width of the type; the four results the invert test asserts come out.
InvertBits ==
  inv.pc = "done" =>
    LET n == IF inv.given THEN inv.bits ELSE inv.width
    IN  /\ \A i \in 0..(inv.width - 1) :
             inv.result[i] = IF i < n THEN inv.value[n - 1 - i] ELSE 0
        /\ inv.width = 8 /\ inv.value = ToBits(66, 8) /\ ~inv.given => ToNat(inv.result) = 66
        /\ inv.width = 8 /\ inv.value = ToBits(66, 8) /\ inv.given /\ inv.bits = 2 => ToNat(inv.result) = 1
        /\ inv.width = 16 /\ inv.value = ToBits(48879, 16) /\ ~inv.given => ToNat(inv.result) = 63357
        /\ inv.width = 32 /\ inv.value = ToBits(12648430, 32) /\ inv.given /\ inv.bits = 24
             => ToNat(inv.result) = 7864067

\* a call that reverses fewer bits than the type has, of a value with bits above them
InvertBitsWitness ==
  /\ inv.pc = "done"
  /\ inv.given /\ inv.bits < inv.width
  /\ \E i \in inv.bits..(inv.width - 1) : inv.value[i] = 1
  /\ \E i \in 0..(inv.bits - 1) : inv.result[i] # inv.value[i]

(***************************************************************************)
(* The code of a built model.                                              *)
(***************************************************************************)
\* the bits that encoding a symbol writes to an empty stream, in stream order
Codeword(h, symbol, ub) ==
  With(encode(h, bitstream_default, symbol, ub), LAMBDA s : [i \in 1..s.size_ |-> StreamBit(s, i - 1)])

IsPrefix(a, b) == Len(a) <= Len(b) /\ SubSeq(b, 1, Len(a)) = a

\* C2: once the model is built, every symbol is written as lengths_[symbol] bits,
\* and the bits written for a symbol are not a prefix of the bits written for another
PrefixFree ==
  run.pc = "built" =>
    \A ub \in ShiftOutcomes :
      \E word \in {[a \in Symbols |-> Codeword(huffman, a, ub)]} :
        \A a \in Symbols :
          /\ Len(word[a]) = huffman.lengths_[a]
          /\ \A b \in Symbols \ {a} : ~IsPrefix(word[a], word[b])

\* a built model with codes of different lengths, for zero and nonzero weights
PrefixFreeWitness ==
  /\ run.pc = "built"
  /\ \E a, b \in Symbols :
       /\ huffman.weights_[a] = 0 /\ huffman.weights_[b] > 0
       /\ huffman.lengths_[b] < huffman.lengths_[a]
       /\ IsPrefix(SubSeq(Codeword(huffman, b, "out"), 1, 1), Codeword(huffman, a, "out"))

\* the part of the sum of 2^(64 - length) held by the k-th group of 24 bits
KraftLimb(lengths, k) ==
  Sum([i \in Symbols |-> IF (64 - lengths[i]) \div 24 = k THEN 2 ^ ((64 - lengths[i]) % 24) ELSE 0],
      Symbols)

\* the sum over all symbols of 2^(64 - length), in groups of 24 bits, highest first
KraftSum(lengths) ==
  LET low == KraftLimb(lengths, 0)
      middle == KraftLimb(lengths, 1) + (low \div (2 ^ 24))
      high == KraftLimb(lengths, 2) + (middle \div (2 ^ 24))
  IN  <<high, middle % (2 ^ 24), low % (2 ^ 24)>>

\* 2^64 in the same groups
KraftOne == <<2 ^ 16, 0, 0>>

\* C3: the lengths that get_code_lenghts_from_data leaves are between 1 and 64
\* and the sum over all symbols of 2^(-length) is exactly 1
KraftEquality ==
  run.pc \in {"canonical", "built"} =>
    /\ \A a \in Symbols : huffman.lengths_[a] \in 1..64
    /\ KraftSum(huffman.lengths_) = KraftOne

\* lengths taken from a tree over zero and nonzero weights, not all the same
KraftEqualityWitness ==
  /\ run.pc = "canonical"
  /\ \E a, b \in Symbols :
       /\ huffman.weights_[a] = 0 /\ huffman.weights_[b] > 0
       /\ huffman.lengths_[a] # huffman.lengths_[b]

(***************************************************************************)
(* The canonical assignment.                                               *)
(***************************************************************************)
\* the keys hold every symbol with its length, ordered by length and then by symbol
CanonicalOrder ==
  /\ Len(canon.sortable) = alphabet_size
  /\ \A a \in Symbols : \E i \in 1..alphabet_size :
       canon.sortable[i] = sortable_key(huffman.lengths_, a) /\ key_symbol(canon.sortable[i]) = a
  /\ \A i, j \in 1..alphabet_size :
       i < j => \/ key_size(canon.sortable[i]) < key_size(canon.sortable[j])
                \/ /\ key_size(canon.sortable[i]) = key_size(canon.sortable[j])
                   /\ key_symbol(canon.sortable[i]) < key_symbol(canon.sortable[j])

\* the values start at 0; each is the one before plus 1, shifted left by the
\* increase in length, and is greater than the one before as an unsigned integer
CanonicalValues ==
  /\ canon.values[1] = Zero(64)
  /\ \A i \in 2..alphabet_size :
       /\ canon.values[i] = Shl(Inc(canon.values[i - 1]),
                                key_size(canon.sortable[i]) - key_size(canon.sortable[i - 1]))
       /\ Less(canon.values[i - 1], canon.values[i])

\* the sum over all symbols of 2^(-length) is at most 1
KraftInequality(lengths) ==
  KraftSum(lengths)[1] < KraftOne[1] \/ KraftSum(lengths) = KraftOne

\* C9, as claimed: for every length table the keys are ordered by length and then
\* by symbol, and the values start at 0 and are strictly increasing
CanonicalMonotonicityAnyTable ==
  run.pc = "built" => CanonicalOrder /\ CanonicalValues

\* C9, amended: the same for every table of lengths between 1 and 64 whose sum
\* of 2^(-length) is at most 1
CanonicalMonotonicity ==
  (/\ run.pc = "built"
   /\ \A a \in Symbols : huffman.lengths_[a] \in 1..64
   /\ KraftInequality(huffman.lengths_)) => CanonicalOrder /\ CanonicalValues

\* a table with codes of 1, 63 and 64 bits that satisfies the inequality
CanonicalMonotonicityWitness ==
  /\ run.pc = "built"
  /\ KraftInequality(huffman.lengths_)
  /\ {1, 63, 64} \subseteq {huffman.lengths_[a] : a \in Symbols}
  /\ canon.values[alphabet_size][63] = 1

(***************************************************************************)
(* The header.                                                             *)
(***************************************************************************)
\* C4: serialise advances the size and the write cursor of the stream by
\* 64 + 64 + 16 bits and 6 bits per symbol, which is header_size_, whether the
\* model is built or not
FixedHeaderSize ==
  [][run'.pc = "serialised" =>
       /\ stream'.size_ = stream.size_ + 64 + 64 + 16 + 6 * alphabet_size
       /\ stream'.write_index_ = stream.write_index_ + 64 + 64 + 16 + 6 * alphabet_size
       /\ stream'.size_ - stream.size_ = header_size_]_vars

\* the header of a model that was never built, after 7 bits
FixedHeaderSizeWitness ==
  /\ run.pc = "serialised"
  /\ huffman.lengths_ = huffman_default.lengths_
  /\ huffman.encoded_size_ = 0
  /\ stream.size_ = 7 + header_size_

\* the header of a built model
FixedHeaderSizeBuilt ==
  /\ run.pc = "serialised"
  /\ huffman.encoded_size_ > 0
  /\ \E a, b \in Symbols : huffman.lengths_[a] < huffman.lengths_[b]

(***************************************************************************)
(* The two ends together.                                                  *)
(***************************************************************************)
\* C10: the model that deserialise rebuilds from the header has the lengths, the
\* code values, the original size and the encoded size of the model that wrote it
OnlyLengthsCrossTheWire ==
  /\ run.pc # "failed"
  /\ run.pc \in {"resize", "decode", "done"} =>
       /\ \A a \in Symbols : huffman.lengths_[a] \in 1..64
       /\ decoder.lengths_ = huffman.lengths_
       /\ decoder.encoding_ = huffman.encoding_
       /\ decoder.original_size_ = huffman.original_size_
       /\ decoder.encoded_size_ = huffman.encoded_size_

\* a rebuilt model with codes of different lengths and a payload
OnlyLengthsCrossTheWireWitness ==
  /\ run.pc = "decode"
  /\ run.decoded = <<>>
  /\ decoder.encoded_size_ > 0
  /\ decoder.original_size_ = MaxData
  /\ \E a, b \in Symbols : decoder.lengths_[a] < decoder.lengths_[b]
  /\ \E a \in Symbols : decoder.encoding_[a] # Zero(64)

\* C1: when decode reports the end of the input, the symbols decoded are the
\* symbols of the data, in the same order and number; no step on the way fails
RoundTrip ==
  /\ run.pc \notin {"failed", "abort"}
  /\ run.pc = "done" => run.decoded = run.data
  /\ run.pc = "decode" => /\ Len(run.decoded) <= Len(run.data)
                          /\ run.decoded = SubSeq(run.data, 1, Len(run.decoded))

\* the round trip of a message of two different symbols through the bytes of a file
RoundTripWitness ==
  /\ run.pc = "done"
  /\ run.driver = "codec"
  /\ Len(run.data) = MaxData
  /\ \E i, j \in 1..Len(run.data) : run.data[i] # run.data[j]
  /\ run.decoded = run.data

\* the round trip of the empty message
RoundTripEmpty == run.pc = "done" /\ run.data = <<>> /\ run.decoded = <<>>

\* the round trip of a message of a single distinct symbol
RoundTripSingle ==
  /\ run.pc = "done"
  /\ Len(run.data) = MaxData
  /\ \A i \in 1..Len(run.data) : run.data[i] = run.data[1]
  /\ run.decoded = run.data

\* the bits of the file above the encoded message
PaddingBits == 8 * Len(run.file) - (header_size_ + decoder.encoded_size_)

\* C11: the decode driver decodes as many symbols as the header counts and then
\* meets the end of the input: the padding of the last byte of the file, which
\* may spell codewords, gives no symbol
PaddingNeverDecoded ==
  run.driver = "codec" =>
    /\ run.pc = "decode" => Len(run.decoded) <= decoder.original_size_
    /\ run.pc = "done" => /\ Len(run.decoded) = decoder.original_size_
                          /\ Len(run.decoded) = Len(run.data)
                          /\ \A i \in 1..Len(run.data) : run.decoded[i] = run.data[i]

\* a file decoded to its end whose padding spells the codeword 0 of a symbol of the data
PaddingNeverDecodedWitness ==
  /\ run.pc = "done"
  /\ run.driver = "codec"
  /\ Len(run.data) > 0
  /\ PaddingBits >= 2
  /\ \E i \in 1..Len(run.data) :
        /\ decoder.lengths_[run.data[i]] = 1
        /\ decoder.encoding_[run.data[i]] = Zero(64)
  /\ Len(run.decoded) = decoder.original_size_

\* C12: a write, read or peek that asks for more bits than the type of its value
\* holds fails its assertion, whatever remains in the stream; the failing call
\* leaves the stream as it was, and no call is made after it
CountAboveWidthFails ==
  [][/\ last.ok
     /\ last'.count > last'.width =>
           /\ ~last'.ok
           /\ stream' = stream
           /\ written' = written
           /\ delivered' = delivered]_vars

\* a read of more bits than its value holds, failed with fewer bits than that left to read
CountAboveWidthFailsWitness ==
  /\ last.op = "read"
  /\ last.count > last.width
  /\ ~last.ok
  /\ stream.read_index_ > 0
  /\ stream.size_ - stream.read_index_ > 0
  /\ stream.size_ - stream.read_index_ < last.width

\* C13: the bytes of a stream are as many as its bits need, bit j of byte i is
\* bit 8i + j of the stream, and the bits of the last byte above the size are 0
BytePacking ==
  run.pc = "bytes" =>
    /\ Len(run.file) = (stream.size_ + 7) \div 8
    /\ \A i \in 1..Len(run.file) : \A j \in 0..7 :
         run.file[i][j] = IF 8 * (i - 1) + j < stream.size_
                          THEN StreamBit(stream, 8 * (i - 1) + j)
                          ELSE 0

\* the same for the streams whose blocks hold no bit set above the size
BytePackingZeroAbove ==
  (/\ run.pc = "bytes"
   /\ \A i \in stream.size_..(to_bit_size(Len(stream.buffer_)) - 1) : StreamBit(stream, i) = 0)
  => BytePacking

\* the bytes of a written stream that ends within a byte
BytePackingReached ==
  /\ run.pc = "bytes"
  /\ ops > 0
  /\ stream.size_ % 8 # 0
  /\ BytePacking

\* the sum of the code lengths of the symbols of the data
RECURSIVE LengthOfData(_, _)
LengthOfData(lengths, data) ==
  IF data = <<>> THEN 0 ELSE lengths[Head(data)] + LengthOfData(lengths, Tail(data))

\* all the codewords of the data are written after the header
AllEncoded == run.pc = "encode" /\ run.pos > Len(run.data)

\* C14: once the header and the codeword of every symbol of the data are in the
\* stream, the size of the stream is header_size_ + encoded_size_, which is the
\* number in the first 64 bits of the header, and encoded_size_ is the sum of the
\* code lengths of the symbols of the data
TotalBitsTruthful ==
  AllEncoded =>
    /\ stream.size_ = header_size_ + huffman.encoded_size_
    /\ ToNat(peek(seekg(stream, 0), 64, 64).value) = stream.size_
    /\ huffman.encoded_size_ = LengthOfData(huffman.lengths_, run.data)

\* a message of symbols with codes of different lengths, all written
TotalBitsTruthfulWitness ==
  /\ AllEncoded
  /\ run.driver = "codec"
  /\ Len(run.data) = MaxData
  /\ \E i, j \in 1..Len(run.data) : huffman.lengths_[run.data[i]] < huffman.lengths_[run.data[j]]
  /\ stream.size_ > header_size_ + MaxData

\* the least k with 2^k >= n
CeilLog2(n) == CHOOSE k \in 0..n : 2 ^ k >= n /\ \A j \in 0..(k - 1) : 2 ^ j < n

\* C15: the model of the empty input is built without a failed assertion: the
\* root is no higher than 64 (the tree over equal weights is balanced, its height
\* is the logarithm of the alphabet size), the lengths are a complete prefix code
\* over the whole alphabet, and encoded_size_ and original_size_ are 0
EmptyInputBuilds ==
  run.data = <<>> =>
    /\ run.pc # "abort"
    /\ run.pc \in {"canonical", "built"} =>
          /\ tree_asserts(tree)
          /\ tree.nodes[tree.root].height = CeilLog2(alphabet_size)
          /\ \A a \in Symbols : huffman.lengths_[a] \in 1..CeilLog2(alphabet_size)
          /\ KraftSum(huffman.lengths_) = KraftOne
          /\ huffman.encoded_size_ = 0
          /\ huffman.original_size_ = 0
    /\ run.pc = "built" =>
          \A a, b \in Symbols : a # b => ~IsPrefix(Codeword(huffman, a, "out"), Codeword(huffman, b, "out"))

\* the model of the empty input, built
EmptyInputBuildsWitness ==
  /\ run.pc = "built"
  /\ run.data = <<>>
  /\ \A a \in Symbols : huffman.weights_[a] = 0
  /\ tree.root = alphabet_size * 2 - 1
  /\ huffman.encoded_size_ = 0

(***************************************************************************)
(* The order of extraction from the merge queue.                           *)
(***************************************************************************)
\* the step is an iteration of the merge loop
MergeStep == run.pc = "merge" /\ Len(tree'.nodes) = Len(tree.nodes) + 1

\* the two nodes the iteration took from the queue
Popped == {i \in tree.queue : tree'.nodes[i].parent = Len(tree'.nodes)}

\* no node of the queue has a smaller weight than x, nor the same weight and a smaller height
LightestLowest(x, queue) ==
  \A z \in queue :
    \/ tree.nodes[z].weight > tree.nodes[x].weight
    \/ tree.nodes[z].weight = tree.nodes[x].weight /\ tree.nodes[z].height >= tree.nodes[x].height

\* no node of the queue has a smaller weight than x, nor the same weight and a greater height
LightestTallest(x, queue) ==
  \A z \in queue :
    \/ tree.nodes[z].weight > tree.nodes[x].weight
    \/ tree.nodes[z].weight = tree.nodes[x].weight /\ tree.nodes[z].height <= tree.nodes[x].height

\* C16 as claimed: each node taken from the queue has the minimal weight and,
\* among the nodes of that weight, the greatest height
TieBreakTaller ==
  [][MergeStep =>
       \E first \in Popped :
         /\ LightestTallest(first, tree.queue)
         /\ \A second \in Popped \ {first} : LightestTallest(second, tree.queue \ {first})]_vars

\* C16: each node taken from the queue has the minimal weight and, among the
\* nodes of that weight, the smallest height: a node is extracted before any
\* node of the same weight and greater height
TieBreakLower ==
  [][MergeStep =>
       /\ Cardinality(Popped) = 2
       /\ \E first \in Popped :
            /\ LightestLowest(first, tree.queue)
            /\ \A second \in Popped \ {first} : LightestLowest(second, tree.queue \ {first})]_vars

\* a merge that left in the queue a node as heavy as a node it took, and taller
TieBreakLowerWitness ==
  /\ run.pc = "merge"
  /\ Len(tree.nodes) > alphabet_size
  /\ \E p \in 1..Len(tree.nodes) : \E z \in tree.queue \ {Len(tree.nodes)} :
       /\ tree.nodes[p].parent = Len(tree.nodes)
       /\ tree.nodes[z].weight = tree.nodes[p].weight
       /\ tree.nodes[z].height > tree.nodes[p].height

(***************************************************************************)
(* The shape of the merge tree.                                            *)
(***************************************************************************)
\* the nodes whose parent is n
Children(n) == {i \in 1..Len(tree.nodes) : tree.nodes[i].parent = n}

\* the greatest of the heights of a set of nodes
Tallest(set) == CHOOSE h \in {tree.nodes[i].height : i \in set} : \A i \in set : tree.nodes[i].height <= h

\* C18: the merge loop never makes more nodes than were reserved, and it ends
\* after alphabet_size - 1 merges with an empty queue and 2 * alphabet_size - 1
\* nodes; the root has no parent and every other node has one, made after it;
\* every internal node has two children, the sum of their weights and one more
\* than the greater of their heights; the weight of the root is the sum of all
\* the weights
MergeTreeWellFormed ==
  /\ run.pc # "abort"
  /\ Len(tree.nodes) <= alphabet_size * 2 - 1
  /\ run.pc \in {"canonical", "built"} =>
        /\ tree.queue = {}
        /\ Len(tree.nodes) - alphabet_size = alphabet_size - 1
        /\ tree.root \in 1..Len(tree.nodes)
        /\ \A i \in 1..Len(tree.nodes) :
             IF i = tree.root THEN tree.nodes[i].parent = 0
             ELSE /\ tree.nodes[i].parent \in (alphabet_size + 1)..Len(tree.nodes)
                  /\ tree.nodes[i].parent > i
        /\ \A i \in 1..alphabet_size :
             /\ tree.nodes[i].weight = huffman.weights_[i - 1]
             /\ tree.nodes[i].height = 0
             /\ Children(i) = {}
        /\ \A n \in (alphabet_size + 1)..Len(tree.nodes) :
             /\ Cardinality(Children(n)) = 2
             /\ tree.nodes[n].weight = Sum([i \in Children(n) |-> tree.nodes[i].weight], Children(n))
             /\ tree.nodes[n].height = 1 + Tallest(Children(n))
        /\ tree.nodes[tree.root].weight = Sum(huffman.weights_, Symbols)

\* a finished tree over weights that differ, with a node whose children differ in height
MergeTreeWellFormedWitness ==
  /\ run.pc = "canonical"
  /\ \E a, b \in Symbols : 0 < huffman.weights_[a] /\ huffman.weights_[a] < huffman.weights_[b]
  /\ \E i, j \in 1..Len(tree.nodes) :
       /\ tree.nodes[i].parent = tree.nodes[j].parent
       /\ tree.nodes[i].height < tree.nodes[j].height
  /\ tree.nodes[tree.root].weight = Sum(huffman.weights_, Symbols)

\* the number of occurrences of a symbol in the data
Occurrences(data, a) == Cardinality({i \in 1..Len(data) : data[i] = a})

\* C19: after any number of scans the weights and original_size_ are those of a
\* single scan of the concatenated buffers: the weight of a symbol is the number
\* of its occurrences, and the weights add up to original_size_
ScansMerge ==
  run.pc = "scans" =>
    /\ huffman.weights_ = scan_input(huffman_default, run.data).weights_
    /\ huffman.original_size_ = scan_input(huffman_default, run.data).original_size_
    /\ \A a \in Symbols : huffman.weights_[a] = Occurrences(run.data, a)
    /\ huffman.original_size_ = Len(run.data)
    /\ Sum(huffman.weights_, Symbols) = huffman.original_size_

\* two scans, neither of them empty, with a symbol that occurs in both
ScansMergeWitness ==
  /\ run.pc = "scans"
  /\ run.pos = 2
  /\ Len(run.data) = 4
  /\ \E a \in Symbols : run.data[1] = a /\ run.data[4] = a /\ huffman.weights_[a] >= 2
  /\ huffman.original_size_ = 4

(***************************************************************************)
(* What scan_input, serialise and encode leave alone.                      *)
(***************************************************************************)
ScanStep == run.pc = "scan" /\ run'.pc # "scan"

SerialiseStep == run.pc = "built" /\ run'.pc = "encode"

EncodeStep == run.pc = "encode" /\ run'.pos = run.pos + 1

\* C20: scan_input leaves lengths_ and encoding_ as they were; serialise and
\* encode leave the whole model as it was (lengths_, encoding_, weights_,
\* original_size_, encoded_size_) and change the stream alone
FrameEffect ==
  [][/\ ScanStep =>
          /\ huffman'.lengths_ = huffman.lengths_
          /\ huffman'.encoding_ = huffman.encoding_
     /\ (SerialiseStep \/ EncodeStep) =>
          /\ huffman'.lengths_ = huffman.lengths_
          /\ huffman'.encoding_ = huffman.encoding_
          /\ huffman'.weights_ = huffman.weights_
          /\ huffman'.original_size_ = huffman.original_size_
          /\ huffman'.encoded_size_ = huffman.encoded_size_
          /\ stream' # stream
          /\ UNCHANGED <<tree, canon, decoder>>]_vars

\* a built model, not the neutral one, after its header and a codeword were written
FrameEffectWitness ==
  /\ run.pc = "encode"
  /\ run.pos > 1
  /\ stream.size_ > header_size_
  /\ huffman.original_size_ = MaxData
  /\ \E a \in Symbols : huffman.lengths_[a] # alphabet_bits
  /\ \E a \in Symbols : huffman.encoding_[a] # huffman_default.encoding_[a]

(***************************************************************************)
(* The range of the code lengths.                                          *)
(***************************************************************************)
\* the lengths are within 1..64, so that length - 1 fits the 6 bits of the header,
\* and the greatest of them is the height of the root
LengthsInRange ==
  /\ \A a \in DOMAIN huffman.lengths_ :
       /\ huffman.lengths_[a] \in 1..64
       /\ huffman.lengths_[a] - 1 < 2 ^ 6
  /\ \A a \in DOMAIN huffman.lengths_ : huffman.lengths_[a] <= tree.nodes[tree.root].height
  /\ \E a \in DOMAIN huffman.lengths_ : huffman.lengths_[a] = tree.nodes[tree.root].height

SeekPositions == {0, 5, 32}

\* an empty stream, or one of 40 bits all set with the write cursor at its start
CursorsInit ==
  /\ inv = NoInvert
  /\ HuffmanIdle
  /\ stream \in {bitstream_default, bitstream_fill(40, 1)}
  /\ written = [i \in 1..stream.size_ |-> 1]
  /\ delivered = <<>>
  /\ last = NoCall
  /\ ops = 0

WriteBit ==
  /\ ops < MaxOps
  /\ \E value \in {0, 1} :
       /\ stream' = write_bit(stream, value)
       /\ written' = Overwrite(written, stream.write_index_, <<value>>)
       /\ last' = [op |-> "write_bit", width |-> 1, count |-> 1, ret |-> 0,
                   value |-> [i \in 0..0 |-> value], pos |-> stream.write_index_, ok |-> TRUE]
  /\ ops' = ops + 1
  /\ UNCHANGED <<delivered, inv>>
  /\ UNCHANGED huffmanVars

Seek ==
  /\ ops < MaxOps
  /\ \E position \in SeekPositions :
       /\ position <= stream.size_
       /\ stream' = seekg(stream, position)
       /\ last' = [op |-> "seek", width |-> 0, count |-> position, ret |-> 0,
                   value |-> <<>>, pos |-> stream.read_index_, ok |-> TRUE]
  /\ ops' = ops + 1
  /\ UNCHANGED <<written, delivered, inv>>
  /\ UNCHANGED huffmanVars

\* the writes of the test word: over a stream of set bits they clear some
CursorsWrite == Write /\ last'.value = Cast(TestWord, last'.width)

CursorsNext == CursorsWrite \/ WriteBit \/ Peek \/ Read \/ Skip \/ Seek

SpecCursors == CursorsInit /\ [][CursorsNext]_vars

\* a step that is a call of one of the operations that read the stream
ReaderStep == ops' = ops + 1 /\ last'.op \in {"read", "peek", "skip", "seek"}

\* a step that is a call of one of the two writes
WriterStep == ops' = ops + 1 /\ last'.op \in {"write", "write_bit"}

\* what a call leaves alone: a reader everything but the read cursor, a writer the
\* read cursor and the bits below the write cursor
CursorsStep ==
  /\ ReaderStep =>
       /\ stream'.write_index_ = stream.write_index_
       /\ stream'.size_ = stream.size_
       /\ stream'.buffer_ = stream.buffer_
  /\ WriterStep =>
       /\ stream'.read_index_ = stream.read_index_
       /\ stream'.write_index_ >= stream.write_index_
       /\ \A i \in 0..(stream.write_index_ - 1) : StreamBit(stream', i) = StreamBit(stream, i)

\* C21: read, peek, skip and seek leave the write cursor, size() and every
\* block of the buffer as they were; a write leaves the read cursor and every
\* bit below the write cursor of before the call as they were, and never
\* moves the write cursor back.
IndependentCursors == [][CursorsStep]_vars

\* a write in the middle of a block, over bits the stream already holds, after
\* the read cursor has moved
IndependentCursorsWitness ==
  /\ last.op = "write"
  /\ last.count > 0
  /\ BitInBlock(last.pos) > 0
  /\ last.pos + last.count < stream.size_
  /\ stream.read_index_ > 0

(***************************************************************************)
(* The lengths against every prefix code of the alphabet.  By Kraft's      *)
(* inequality a table of lengths is that of a prefix code exactly when the *)
(* sum of 2^-length over the symbols is at most 1.  A code tree deeper     *)
(* than alphabet_size - 1 has a node with one child only, and taking that  *)
(* node out shortens codes, so the codes with longer lengths cost no less  *)
(* than one of those listed here.                                          *)
(***************************************************************************)
IsPrefixCode(lengths) ==
  /\ \A symbol \in Symbols : lengths[symbol] \in 1..(alphabet_size - 1)
  /\ Sum([symbol \in Symbols |-> 2 ^ (alphabet_size - lengths[symbol])], Symbols) <= 2 ^ alphabet_size

PrefixCodes == {lengths \in [Symbols -> 1..(alphabet_size - 1)] : IsPrefixCode(lengths)}

\* the payload size of a table of weights under a table of lengths
RECURSIVE PayloadFrom(_, _, _)
PayloadFrom(weights, lengths, symbol) ==
  IF symbol = alphabet_size THEN 0
  ELSE weights[symbol] * lengths[symbol] + PayloadFrom(weights, lengths, symbol + 1)

Payload(weights, lengths) == PayloadFrom(weights, lengths, 0)

\* get_code_lenghts_from_data has returned
LengthsMade == run.driver = "build" /\ run.pc = "canonical"

\* C22: the lengths made from a table of weights are those of a prefix code, no
\* prefix code of the alphabet has a smaller payload size for these weights, and
\* a symbol of greater weight than another never has the longer code
MinimalRedundancy ==
  LengthsMade =>
    /\ IsPrefixCode(huffman.lengths_)
    /\ \A lengths \in PrefixCodes :
         Payload(huffman.weights_, huffman.lengths_) <= Payload(huffman.weights_, lengths)
    /\ \A a, b \in Symbols :
         huffman.weights_[a] > huffman.weights_[b] => huffman.lengths_[a] <= huffman.lengths_[b]

\* lengths of a table of four different weights, where the balanced code of two
\* bits a symbol costs more
MinimalRedundancyWitness ==
  /\ LengthsMade
  /\ \E a, b \in Symbols :
       /\ huffman.weights_[a] > huffman.weights_[b]
       /\ huffman.weights_[b] > 0
       /\ huffman.lengths_[a] < huffman.lengths_[b]
  /\ \E lengths \in PrefixCodes :
       Payload(huffman.weights_, huffman.lengths_) < Payload(huffman.weights_, lengths)

(***************************************************************************)
(* The storage of the stream under construction, reserve, write, read,     *)
(* peek, skip and reset.  A call that indexes buffer_ outside its range is *)
(* undefined: the build may fault or go on with what the memory holds, so  *)
(* the call is recorded as not completed and the run is followed no        *)
(* further.                                                                *)
(***************************************************************************)
ReserveCounts == {8, 64}

\* every buffer_[...] of write(count, value) is inside the buffer, grown as write grows it
write_inside(s, count) ==
  LET size == IF s.write_index_ + count > s.size_ THEN s.write_index_ + count ELSE s.size_
      blocks == IF s.write_index_ + count > s.size_ /\ to_bit_size(Len(s.buffer_)) < size
                THEN to_block_count(size)
                ELSE Len(s.buffer_)
  IN  count = 0 \/ BlockOf(s.write_index_ + count - 1) < blocks

\* every buffer_[...] of peek(count, value) is inside the buffer: the block of the
\* read cursor is read whenever the cursor is inside a block, even for no bits
peek_inside(s, count) ==
  LET c == Min(count, s.size_ - s.read_index_)
  IN  /\ BitInBlock(s.read_index_) = 0 \/ InBuffer(s.buffer_, BlockOf(s.read_index_))
      /\ c = 0 \/ InBuffer(s.buffer_, BlockOf(s.read_index_ + c - 1))

StorageWrite ==
  /\ ops < MaxOps /\ last.ok
  /\ \E c \in WriteCalls : \E value \in {Cast(TestWord, c[1])} : \E ub \in ShiftOutcomes :
       IF write_inside(stream, c[2])
       THEN /\ stream' = write(stream, c[2], value, ub)
            /\ written' = Overwrite(written, stream.write_index_, LowBits(value, c[2]))
            /\ last' = [op |-> "write", width |-> c[1], count |-> c[2], ret |-> 0,
                        value |-> value, pos |-> stream.write_index_, ok |-> TRUE]
       ELSE /\ last' = Failed("write", c, value)
            /\ UNCHANGED <<stream, written>>
  /\ ops' = ops + 1
  /\ UNCHANGED <<delivered, inv>>
  /\ UNCHANGED huffmanVars

StoragePeek ==
  /\ ops < MaxOps /\ last.ok
  /\ \E c \in ReadCalls :
       IF peek_inside(stream, c[2])
       THEN \E r \in {peek(stream, c[2], c[1])} :
              last' = [op |-> "peek", width |-> c[1], count |-> c[2], ret |-> r.count,
                       value |-> r.value, pos |-> stream.read_index_, ok |-> r.ok]
       ELSE last' = Failed("peek", c, <<>>)
  /\ ops' = ops + 1
  /\ UNCHANGED <<stream, written, delivered, inv>>
  /\ UNCHANGED huffmanVars

StorageRead ==
  /\ ops < MaxOps /\ last.ok
  /\ \E c \in ReadCalls :
       IF peek_inside(stream, c[2])
       THEN \E r \in {read(stream, c[2], c[1])} :
              /\ stream' = r.stream
              /\ delivered' = delivered \o LowBits(r.value, r.count)
              /\ last' = [op |-> "read", width |-> c[1], count |-> c[2], ret |-> r.count,
                          value |-> r.value, pos |-> stream.read_index_, ok |-> r.ok]
       ELSE /\ last' = Failed("read", c, <<>>)
            /\ UNCHANGED <<stream, delivered>>
  /\ ops' = ops + 1
  /\ UNCHANGED <<written, inv>>
  /\ UNCHANGED huffmanVars

StorageSkip == last.ok /\ Skip

Reserve ==
  /\ ops < MaxOps /\ last.ok
  /\ \E bitcount \in ReserveCounts :
       /\ stream' = reserve(stream, bitcount)
       /\ last' = [op |-> "reserve", width |-> 0, count |-> bitcount, ret |-> 0,
                   value |-> <<>>, pos |-> 0, ok |-> TRUE]
  /\ ops' = ops + 1
  /\ UNCHANGED <<written, delivered, inv>>
  /\ UNCHANGED huffmanVars

Reset ==
  /\ ops < MaxOps /\ last.ok
  /\ stream' = reset(stream)
  /\ written' = <<>>
  /\ delivered' = <<>>
  /\ last' = [op |-> "reset", width |-> 0, count |-> 0, ret |-> 0,
              value |-> <<>>, pos |-> 0, ok |-> TRUE]
  /\ ops' = ops + 1
  /\ UNCHANGED inv
  /\ UNCHANGED huffmanVars

StorageNext == StorageWrite \/ StoragePeek \/ StorageRead \/ StorageSkip \/ Reserve \/ Reset

SpecStorage == CursorsInit /\ [][StorageNext]_vars

\* C23: the buffer holds at least ceil(size() / 32) blocks and the read cursor
\* is at most size(), so that no call of write, peek or read indexes the buffer
\* outside its range
StorageInvariant ==
  /\ Len(stream.buffer_) >= to_block_count(stream.size_)
  /\ stream.read_index_ <= stream.size_
  /\ last.ok

\* 60 bits are written, reserve(8) drops the second block, and the write that
\* follows grows the buffer again with zeroed blocks: bits written are gone
StorageBitsLost ==
  /\ last.ok /\ last.op = "write" /\ last.pos = 60
  /\ Len(stream.buffer_) >= to_block_count(stream.size_)
  /\ \E i \in 33..60 : StreamBit(stream, i - 1) # written[i]

(***************************************************************************)
(* One instance under any sequence of calls of its three public steps:     *)
(* scan_input, get_code_lenghts_from_data and build_canonical_coding.      *)
(* run.pos counts the calls of get_code_lenghts_from_data.                 *)
(***************************************************************************)
\* the trees the merge loop can end with, one for every way the ties can fall
RECURSIVE merged(_)
merged(t) ==
  IF Cardinality(t.queue) <= 1 THEN {t}
  ELSE UNION {UNION {merged(merge(t, first, second)) :
                       second \in Tops(t.nodes, t.queue \ {first})} :
                first \in Tops(t.nodes, t.queue)}

CallsInit ==
  /\ StreamIdle
  /\ inv = NoInvert
  /\ huffman = huffman_default
  /\ tree = NoTree
  /\ canon = NoCanon
  /\ decoder = huffman_default
  /\ run = [NoRun EXCEPT !.pc = "calls", !.driver = "calls"]

Called(op) == [NoCall EXCEPT !.op = op]

CallScan ==
  /\ run.pc = "calls" /\ ops < MaxOps
  /\ \E data \in ScanChunks : huffman' = scan_input(huffman, data)
  /\ last' = Called("scan_input")
  /\ ops' = ops + 1
  /\ UNCHANGED <<tree, canon, decoder, run, inv, stream, written, delivered>>

CallLengths ==
  /\ run.pc = "calls" /\ ops < MaxOps
  /\ \E t \in merged(tree_leaves(huffman)) :
       /\ tree' = t
       /\ IF tree_asserts(t)
          THEN /\ huffman' = code_lengths(huffman, t)
               /\ run' = [run EXCEPT !.pos = @ + 1]
          ELSE /\ run' = [run EXCEPT !.pc = "abort"]
               /\ UNCHANGED huffman
  /\ last' = Called("get_code_lenghts_from_data")
  /\ ops' = ops + 1
  /\ UNCHANGED <<canon, decoder, inv, stream, written, delivered>>

CallCanonical ==
  /\ run.pc = "calls" /\ ops < MaxOps
  /\ huffman' = build_canonical_coding(huffman)
  /\ \E sortable \in {sorted_keys(huffman.lengths_)} :
       canon' = [sortable |-> sortable, values |-> canonical_values(sortable, 1, Zero(64), 0)]
  /\ last' = Called("build_canonical_coding")
  /\ ops' = ops + 1
  /\ UNCHANGED <<tree, decoder, run, inv, stream, written, delivered>>

CallsNext == CallScan \/ CallLengths \/ CallCanonical

SpecCalls == CallsInit /\ [][CallsNext]_vars

\* C24: once get_code_lenghts_from_data has been called, whatever the calls
\* before and after it, encoded_size_ is the sum over the symbols of
\* weights_[symbol] * lengths_[symbol]
PayloadSizeInvariant ==
  (run.driver = "calls" /\ run.pos > 0) =>
    huffman.encoded_size_ = Payload(huffman.weights_, huffman.lengths_)

\* a call of get_code_lenghts_from_data on an instance whose encoded_size_ is
\* still 0 leaves the sum in encoded_size_
FirstLengthsStep ==
  (/\ ops' = ops + 1
   /\ last'.op = "get_code_lenghts_from_data"
   /\ huffman.encoded_size_ = 0) =>
    huffman'.encoded_size_ = Payload(huffman'.weights_, huffman'.lengths_)

PayloadSizeOfFirstBuild == [][FirstLengthsStep]_vars

\* a second call of get_code_lenghts_from_data has added the sum once more
PayloadSizeTwice ==
  /\ run.driver = "calls" /\ run.pos = 2
  /\ last.op = "get_code_lenghts_from_data"
  /\ huffman.original_size_ > 0
  /\ huffman.encoded_size_ > Payload(huffman.weights_, huffman.lengths_)

====
